---- MODULE Spec2Model ----
(***************************************************************************)
(* Verification model of the Dubai real-estate intelligence core:          *)
(*   - the owner cluster engine  (database/scripts/populate_normalized_    *)
(*     tables.py, database/scripts/fix_populate_all_data.py)               *)
(*   - the paginated record fetcher (backend/core/analytics_engine.py,     *)
(*     backend/neon_client.py, database/scripts/fix_populate_all_data.py)  *)
(*   - the alias resolver (backend/utils/community_aliases.py)             *)
(* Strings are modelled as sequences of one-character strings so that      *)
(* normalisation, case folding and similarity are computed, not assumed.   *)
(***************************************************************************)
EXTENDS Integers, Sequences, FiniteSets, TLC

VARIABLES
    \* ---- cluster engine (one resolution run) ----
    engine,            \* "fuzzy" = cluster_owners, "fast" = cluster_owners_fast
    owners,            \* the identities processed so far, with their assigned fields
    clusters,          \* cluster_id -> list of owner positions
    phone_to_cluster,  \* norm_phone -> cluster_id
    name_to_cluster,   \* insertion-ordered list of [name, cluster]
    \* ---- a second run of the engine over the same identities ----
    owners2, clusters2, phone_to_cluster2, name_to_cluster2,
    \* ---- paginated fetch (one call of a fetch_* function) ----
    fetcher,           \* "engine" = AnalyticsEngine.fetch_*, "script" = fetch_all_transactions
    src_n,             \* number of records the source holds
    max_retries,       \* the max_retries argument
    f_pc,              \* "fetching", "returned" or "raised"
    f_offset,          \* offset of the page being fetched
    f_attempt,         \* attempt of _fetch_page's retry loop
    all_data,          \* records accumulated so far
    requests,          \* the requests sent to the source: [offset, status]
    page_log,          \* the page fetches that returned: [offset, answered]
    \* ---- alias resolver (process-wide cache, concurrent callers) ----
    configured,          \* SUPABASE_URL and SUPABASE_KEY are both set
    alias_cache,         \* _alias_cache: type -> (alias -> canonical)
    alias_cache_loaded,  \* _alias_cache_loaded: type -> BOOLEAN
    alias_cache_lock,    \* _alias_cache_lock: holder, or NoThread
    loads,               \* full loads of the store performed, per type
    t_pc,                \* per caller: position inside _resolve_alias
    t_input,             \* per caller: user_input
    t_type,              \* per caller: alias_type
    t_map,               \* per caller: the alias_map being built under the lock
    t_result,            \* per caller: returned value
    t_hit,               \* per caller: what answered: "none", "cache" or "store"
    store_answers,       \* history: the (input, type, canonical) the store has answered
    t_prior,             \* per caller: what the store had answered for this call's
                         \* (input, type) when the call began, <<>> if nothing
    \* ---- phone keys (backend/utils/phone_utils.py) ----
    ph_pc,               \* "start", "normalized", "renormalized" or "matched"
    ph_raw,              \* raw_phone / phone1
    ph_other,            \* phone2
    ph_key,              \* normalize_phone(ph_raw)
    ph_key2,             \* normalize_phone(ph_key)
    ph_match,            \* phones_match(ph_raw, ph_other)
    \* ---- name keys (the two normalize_name functions) ----
    nm_pc,               \* "start" or "done"
    nm_script,           \* "populate" or "fast": which script's normalize_name
    nm_raw,              \* name
    nm_key,              \* normalize_name(name)
    \* ---- property rebuild (scripts/rebuild_properties.py, extract_unique_properties) ----
    transactions,        \* the transactions table, in row (input) order
    pb_pc,               \* "collect", "built" or "raised"
    pb_builder,          \* "none", "rebuild" or "extract": which builder ran
    properties,          \* rows the rebuild inserted into properties
    unique_properties,   \* records extract_unique_properties returned
    \* ---- market statistics (AnalyticsEngine.market_stats) ----
    ms_pc,               \* "collect", "stats" or "compared"
    ms_records,          \* the records fetch_transactions returns
    ms_poison,           \* the poisoned record added for the second call
    ms_result,           \* market_stats over ms_records
    ms_result_p,         \* market_stats over ms_records plus ms_poison
    \* ---- comparables and valuation (AnalyticsEngine.find_comparables, estimate_value) ----
    cp_pc,               \* "collect", "done" or "raised"
    cp_entry,            \* "none", "find_comparables", "estimate_value" or "comps"
    cp_records,          \* the records fetch_transactions returns, newest first
    cp_size,             \* size_sqft argument, 0 for None
    cp_building,         \* building argument, empty for None
    cp_result,           \* what the entry point returned
    \* ---- community correlation (AnalyticsEngine.community_correlation) ----
    cr_pc,               \* "collect", "done" or "raised"
    cr_sales,            \* the transactions table: at most one sale per community and month
    cr_request,          \* communities argument
    cr_result,           \* what community_correlation returned
    \* ---- owner lookup (get_owner_portfolio, AnalyticsEngine.owner_portfolio) ----
    lk_pc,               \* "collect" or "done"
    lk_owners,           \* the owners table
    lk_entry,            \* "none", "api" or "engine"
    lk_phone,            \* phone argument, empty for None
    lk_name,             \* name argument, empty for None
    lk_fetches,          \* the tables fetched, in order
    lk_outcome,          \* the response, the HTTP error or the exception of the call
    \* ---- market activity score (AnalyticsEngine.market_activity_score) ----
    sc_pc,               \* "collect" or "done"
    sc_records,          \* the records fetch_transactions returns
    sc_result,           \* what market_activity_score returned
    \* ---- owner contacts (ingest_dubai_real_estate.py, ensure_owner_contacts) ----
    contact_cache,       \* the (owner_id, phone) keys already stored in this run
    owner_contacts,      \* the owner_contacts table
    ct_ingested,         \* number of records ingested
    ct_first,            \* history: per owner the first phone seen, "" if none yet
    \* ---- owner linkage of the rebuild over the owners a resolution run stored ----
    ln_pc,               \* "collect" or "linked"
    ln_buyer,            \* index in owners of the identity the latest transaction carries, 0 if none
    ln_owner             \* id of the owner row the lookup matched, 0 for none

clusterVars == <<engine, owners, clusters, phone_to_cluster, name_to_cluster>>
rerunVars   == <<owners2, clusters2, phone_to_cluster2, name_to_cluster2>>
fetchVars   == <<fetcher, src_n, max_retries, f_pc, f_offset, f_attempt, all_data,
                 requests, page_log>>
aliasVars   == <<configured, alias_cache, alias_cache_loaded, alias_cache_lock, loads,
                 t_pc, t_input, t_type, t_map, t_result, t_hit, store_answers, t_prior>>
aliasHist   == <<store_answers, t_prior>>
phoneVars   == <<ph_pc, ph_raw, ph_other, ph_key, ph_key2, ph_match>>
coreVars    == <<clusterVars, rerunVars, fetchVars, aliasVars>>
nameVars    == <<nm_pc, nm_script, nm_raw, nm_key>>
propVars    == <<transactions, pb_pc, pb_builder, properties, unique_properties>>
statsVars   == <<ms_pc, ms_records, ms_poison, ms_result, ms_result_p>>
toolVars    == <<phoneVars, nameVars, propVars, statsVars>>
\* ---- state tuples of the service components ----
compsVars == <<cp_pc, cp_entry, cp_records, cp_size, cp_building, cp_result>>
corrVars == <<cr_pc, cr_sales, cr_request, cr_result>>
lookupVars == <<lk_pc, lk_owners, lk_entry, lk_phone, lk_name, lk_fetches, lk_outcome>>
scoreVars == <<sc_pc, sc_records, sc_result>>
contactVars == <<contact_cache, owner_contacts, ct_ingested, ct_first>>
linkVars == <<ln_pc, ln_buyer, ln_owner>>
svcVars == <<compsVars, corrVars, lookupVars, scoreVars, contactVars, linkVars>>
nonCompsVars == <<coreVars, toolVars, corrVars, lookupVars, scoreVars, contactVars, linkVars>>
nonCorrVars == <<coreVars, toolVars, compsVars, lookupVars, scoreVars, contactVars, linkVars>>
nonLookupVars == <<coreVars, toolVars, compsVars, corrVars, scoreVars, contactVars, linkVars>>
nonScoreVars == <<coreVars, toolVars, compsVars, corrVars, lookupVars, contactVars, linkVars>>
nonContactsVars == <<coreVars, toolVars, compsVars, corrVars, lookupVars, scoreVars, linkVars>>
nonLinkVars == <<coreVars, toolVars, compsVars, corrVars, lookupVars, scoreVars, contactVars>>
\* ---- end of the service tuples ----
vars == <<coreVars, toolVars, svcVars>>

nonClusterVars == <<fetchVars, aliasVars, toolVars, svcVars>>
nonFetchVars   == <<clusterVars, rerunVars, aliasVars, toolVars, svcVars>>
nonAliasVars   == <<clusterVars, rerunVars, fetchVars, toolVars, svcVars>>
nonPhoneVars   == <<coreVars, nameVars, propVars, statsVars, svcVars>>
nonNameVars    == <<coreVars, phoneVars, propVars, statsVars, svcVars>>
nonPropVars    == <<coreVars, phoneVars, nameVars, statsVars, svcVars>>
nonStatsVars   == <<coreVars, phoneVars, nameVars, propVars, svcVars>>


(***************************************************************************)
(* Bounds                                                                  *)
(***************************************************************************)
MaxOwners == 3      \* identities per resolution run
NumUUIDs  == 4      \* size of the pool uuid4() draws from
MaxRecords == 5     \* records held by the source
PageSize   == 2     \* page_size / batch_size (1000 in the code)
MaxRetries == 3     \* largest max_retries argument tried

(***************************************************************************)
(* String helpers (Python str semantics on character sequences)            *)
(***************************************************************************)
Max(a, b) == IF a >= b THEN a ELSE b
Min(a, b) == IF a <= b THEN a ELSE b

IsSpace(c) == c = " "

\* str.upper() on the characters the inputs use
Upper(c) ==
    CASE c = "a" -> "A"
      [] c = "b" -> "B"
      [] c = "l" -> "L"
      [] c = "t" -> "T"
      [] c = "d" -> "D"
      [] c = "m" -> "M"
      [] c = "g" -> "G"
      [] OTHER   -> c

\* str.lower() on the characters the inputs use
Lower(c) ==
    CASE c = "A" -> "a"
      [] c = "B" -> "b"
      [] c = "L" -> "l"
      [] c = "T" -> "t"
      [] c = "D" -> "d"
      [] c = "M" -> "m"
      [] c = "G" -> "g"
      [] OTHER   -> c

UpperStr(s) == [i \in 1..Len(s) |-> Upper(s[i])]
LowerStr(s) == [i \in 1..Len(s) |-> Lower(s[i])]

RECURSIVE LStrip(_)
LStrip(s) == IF s # <<>> /\ IsSpace(Head(s)) THEN LStrip(Tail(s)) ELSE s

RECURSIVE RStrip(_)
RStrip(s) ==
    IF s # <<>> /\ IsSpace(s[Len(s)]) THEN RStrip(SubSeq(s, 1, Len(s) - 1)) ELSE s

\* str.strip()
Strip(s) == RStrip(LStrip(s))

StartsWith(s, pat) == Len(pat) <= Len(s) /\ SubSeq(s, 1, Len(pat)) = pat

\* str.replace(old, new): every non-overlapping occurrence, left to right
RECURSIVE Replace(_, _, _)
Replace(s, old, new) ==
    IF s = <<>> THEN <<>>
    ELSE IF StartsWith(s, old)
         THEN new \o Replace(SubSeq(s, Len(old) + 1, Len(s)), old, new)
         ELSE <<Head(s)>> \o Replace(Tail(s), old, new)

\* `needle in haystack` for strings
RECURSIVE Contains(_, _)
Contains(hay, needle) ==
    IF StartsWith(hay, needle) THEN TRUE
    ELSE IF hay = <<>> THEN FALSE
    ELSE Contains(Tail(hay), needle)

(***************************************************************************)
(* Normalizer of the cluster engine                                        *)
(***************************************************************************)
LegalSuffixes ==
    << <<"L","L","C">>, <<"L",".","L",".","C">>,
       <<"L","I","M","I","T","E","D">>, <<"L","T","D">>,
       <<"C","O">>, <<"C","O","M","P","A","N","Y">> >>

LegalSuffixesFast ==
    LegalSuffixes \o
    << <<"P","S","C">>, <<"P",".","S",".","C">>,
       <<"P",".","J",".","S",".","C">>, <<"P","J","S","C">> >>

\* the suffix loop: normalized = normalized.replace(f" {suffix}", "")
RECURSIVE StripSuffixes(_, _)
StripSuffixes(s, sufs) ==
    IF sufs = <<>> THEN s
    ELSE StripSuffixes(Replace(s, <<" ">> \o Head(sufs), <<>>), Tail(sufs))

normalize_name(name) ==
    IF name = <<>> THEN <<>>
    ELSE Strip(StripSuffixes(
            Replace(Strip(UpperStr(name)), <<" ", " ">>, <<" ">>),
            LegalSuffixes))

normalize_name_fast(name) ==
    IF name = <<>> THEN <<>>
    ELSE Strip(StripSuffixes(Strip(UpperStr(name)), LegalSuffixesFast))

\* normalize_phone of populate_normalized_tables.py: phones are kept as stored
populate_normalize_phone(phone) == IF phone = <<>> THEN <<>> ELSE phone

\* norm_phone of cluster_owners_fast: raw_phone.strip() if raw_phone else ""
fast_normalize_phone(phone) == IF phone = <<>> THEN <<>> ELSE Strip(phone)

(***************************************************************************)
(* fuzz.ratio: normalized Indel similarity, 100 * 2*LCS / (|a| + |b|),     *)
(* kept in hundredths of a point (floor) so the comparison is exact.       *)
(***************************************************************************)
RECURSIVE LcsRow(_, _, _, _)
LcsRow(prev, ch, b, acc) ==
    IF Len(acc) = Len(b) + 1 THEN acc
    ELSE LET j == Len(acc)
         IN  LcsRow(prev, ch, b,
                    Append(acc, IF ch = b[j] THEN prev[j] + 1
                                ELSE Max(prev[j + 1], acc[j])))

RECURSIVE LcsRows(_, _, _)
LcsRows(a, b, prev) ==
    IF a = <<>> THEN prev
    ELSE LcsRows(Tail(a), b, LcsRow(prev, Head(a), b, <<0>>))

LCS(a, b) == LcsRows(a, b, [j \in 1..(Len(b) + 1) |-> 0])[Len(b) + 1]

FuzzRatio(a, b) ==
    IF Len(a) + Len(b) = 0 THEN 10000
    ELSE (20000 * LCS(a, b)) \div (Len(a) + Len(b))

NameThreshold == 90

(***************************************************************************)
(* Inputs of a resolution run                                              *)
(***************************************************************************)
NameA  == <<"A","B","C","D","E","F","G","H","I","J">>
NameB  == <<"A","B","C","D","E","F","G","H","I","X">>          \* ratio 90 with NameA
NameD  == <<"A","B","C","D","E","F","G","H","I","J","K">>      \* 95.2 with NameA, 85.7 with NameB
NameAv == <<"a","B","C","D","E","F","G","H","I","J"," ","L","T","D"," ">>  \* "aBCDEFGHIJ LTD "

RawNames  == {<<>>, NameA, NameB, NameD, NameAv}
RawPhones == {<<>>, <<"5">>, <<"7">>}

Identities == [raw_name : RawNames, raw_phone : RawPhones]

Engines == {"fuzzy", "fast"}
UUIDs   == 1..NumUUIDs
None    == 0

\* the normalizers, tabulated over the inputs of the run
NormNameOf == [e \in Engines |-> [n \in RawNames |->
                 IF e = "fuzzy" THEN normalize_name(n) ELSE normalize_name_fast(n)]]
NormPhoneOf == [e \in Engines |-> [p \in RawPhones |->
                 IF e = "fuzzy" THEN populate_normalize_phone(p) ELSE fast_normalize_phone(p)]]
NormNames == {NormNameOf[e][n] : e \in Engines, n \in RawNames}
RatioOf == [a \in NormNames |-> [b \in NormNames |-> FuzzRatio(a, b)]]

(***************************************************************************)
(* Cluster engine                                                          *)
(***************************************************************************)
\* position of `name` in the ordered dict, 0 when absent
NameIndex(n2c, name) ==
    IF \E i \in 1..Len(n2c) : n2c[i].name = name
    THEN CHOOSE i \in 1..Len(n2c) : n2c[i].name = name
    ELSE 0

\* name_to_cluster[norm_name] = cluster_id  (a dict keeps the first insertion position)
SetName(n2c, name, cid) ==
    LET i == NameIndex(n2c, name)
    IN  IF i = 0 THEN Append(n2c, [name |-> name, cluster |-> cid])
        ELSE [n2c EXCEPT ![i].cluster = cid]

\* phone_to_cluster[norm_phone] = cluster_id
SetPhone(p2c, phone, cid) == (phone :> cid) @@ p2c

\* if similarity >= 90
Similar(a, b) == RatioOf[a][b] >= NameThreshold * 100

\* a variant that seeks the best score instead of the first qualifying name
FuzzyMatchBest(n2c, nn) ==
    LET hits == {i \in 1..Len(n2c) : Similar(nn, n2c[i].name)}
    IN  IF hits = {} THEN None
        ELSE n2c[CHOOSE i \in hits :
                   \A k \in hits : \/ RatioOf[nn][n2c[i].name] > RatioOf[nn][n2c[k].name]
                                   \/ /\ RatioOf[nn][n2c[i].name] = RatioOf[nn][n2c[k].name]
                                      /\ i <= k].cluster

\* the for/break loop of strategy 2: the first qualifying name in dict order
FuzzyMatch(n2c, nn) ==
    LET hits == {i \in 1..Len(n2c) : Similar(nn, n2c[i].name)}
    IN  IF hits = {} THEN None
        ELSE n2c[CHOOSE i \in hits : \A k \in hits : i <= k].cluster

\* a variant that tries the name before the phone
ChooseClusterNameFirst(p2c, n2c, np, nn) ==
    IF nn # <<>> /\ FuzzyMatch(n2c, nn) # None THEN FuzzyMatch(n2c, nn)
    ELSE IF np # <<>> /\ np \in DOMAIN p2c THEN p2c[np]
    ELSE None

\* strategies 1 and 2 of cluster_owners
ChooseCluster(p2c, n2c, np, nn) ==
    IF np # <<>> /\ np \in DOMAIN p2c THEN p2c[np]
    ELSE IF nn # <<>> THEN FuzzyMatch(n2c, nn)
    ELSE None

\* strategies 1 and 2 of cluster_owners_fast
ChooseClusterFast(p2c, n2c, np, nn) ==
    IF np # <<>> /\ np \in DOMAIN p2c THEN p2c[np]
    ELSE IF nn # <<>> /\ NameIndex(n2c, nn) # 0 THEN n2c[NameIndex(n2c, nn)].cluster
    ELSE None

\* a variant that re-creates the member list of a cluster that already exists
AssignReset(cl, idx, cid) == (cid :> <<idx>>) @@ cl

\* the tail of one loop iteration: record the assignment, append, update the lookups
Assign(cl, idx, cid) ==
    IF cid \in DOMAIN cl THEN [cl EXCEPT ![cid] = Append(@, idx)]
    ELSE (cid :> <<idx>>) @@ cl

\* a variant that allocates the new cluster but forgets the append
NewClusterEmpty(cl, idx, cid) ==
    IF cid \in DOMAIN cl THEN [cl EXCEPT ![cid] = Append(@, idx)]
    ELSE (cid :> <<>>) @@ cl

\* clusters[cluster_id].append(owner), after the allocation of lines 78-84
AppendOwner(cl, idx, cid) == Assign(cl, idx, cid)

OwnerRow(idn, cid, nn, np) ==
    [raw_name |-> idn.raw_name, raw_phone |-> idn.raw_phone,
     cluster_id |-> cid, norm_name |-> nn, norm_phone |-> np]

\* a variant whose id generator may return an id that is already in use
ClusterStepCollide(e, idn, u, ow, cl, p2c, n2c, ow1, cl1, p2c1, n2c1) ==
    LET nn     == NormNameOf[e][idn.raw_name]
        np     == NormPhoneOf[e][idn.raw_phone]
        found  == IF e = "fuzzy" THEN ChooseCluster(p2c, n2c, np, nn)
                  ELSE ChooseClusterFast(p2c, n2c, np, nn)
        cid    == IF found = None THEN u ELSE found
    IN  /\ (found = None) => u \in UUIDs
        /\ (found # None) => u = None
        /\ ow1  = Append(ow, OwnerRow(idn, cid, nn, np))
        /\ cl1  = AppendOwner(cl, Len(ow) + 1, cid)
        /\ p2c1 = IF np # <<>> THEN SetPhone(p2c, np, cid) ELSE p2c
        /\ n2c1 = IF nn # <<>> THEN SetName(n2c, nn, cid) ELSE n2c

\* one iteration of `for owner in owners` for the identity idn, with uuid4() = u
\* when a new cluster is allocated
ClusterStep(e, idn, u, ow, cl, p2c, n2c, ow1, cl1, p2c1, n2c1) ==
    LET nn     == NormNameOf[e][idn.raw_name]
        np     == NormPhoneOf[e][idn.raw_phone]
        found  == IF e = "fuzzy" THEN ChooseCluster(p2c, n2c, np, nn)
                  ELSE ChooseClusterFast(p2c, n2c, np, nn)
        cid    == IF found = None THEN u ELSE found
    IN  /\ (found = None) => u \in UUIDs \ DOMAIN cl
        /\ (found # None) => u = None
        /\ ow1  = Append(ow, OwnerRow(idn, cid, nn, np))
        /\ cl1  = AppendOwner(cl, Len(ow) + 1, cid)
        /\ p2c1 = IF np # <<>> THEN SetPhone(p2c, np, cid) ELSE p2c
        /\ n2c1 = IF nn # <<>> THEN SetName(n2c, nn, cid) ELSE n2c

cluster_owners ==
    /\ engine = "fuzzy"
    /\ Len(owners) < MaxOwners
    /\ \E idn \in Identities, u \in UUIDs \cup {None} :
          ClusterStep("fuzzy", idn, u, owners, clusters, phone_to_cluster, name_to_cluster,
                      owners', clusters', phone_to_cluster', name_to_cluster')
    /\ UNCHANGED <<engine, rerunVars, nonClusterVars>>

cluster_owners_fast ==
    /\ engine = "fast"
    /\ Len(owners) < MaxOwners
    /\ \E idn \in Identities, u \in UUIDs \cup {None} :
          ClusterStep("fast", idn, u, owners, clusters, phone_to_cluster, name_to_cluster,
                      owners', clusters', phone_to_cluster', name_to_cluster')
    /\ UNCHANGED <<engine, rerunVars, nonClusterVars>>

EmptyMap == [x \in {} |-> None]

RerunIdle ==
    /\ owners2 = <<>> /\ clusters2 = EmptyMap
    /\ phone_to_cluster2 = EmptyMap /\ name_to_cluster2 = <<>>

ClusterStart ==
    /\ engine \in Engines
    /\ owners = <<>> /\ clusters = EmptyMap
    /\ phone_to_cluster = EmptyMap /\ name_to_cluster = <<>>

\* the fetcher before any call
FetchIdle ==
    /\ fetcher = "engine" /\ src_n = 0 /\ max_retries = 0
    /\ f_pc = "idle" /\ f_offset = 0 /\ f_attempt = 0
    /\ all_data = <<>> /\ requests = <<>> /\ page_log = <<>>

(***************************************************************************)
(* Alias resolver: static table, persistent store and callers              *)
(***************************************************************************)
AliasTypes == {"community", "building"}
Threads    == {1, 2}
NoThread   == 0

\* STATIC_ALIASES_BY_TYPE, one entry per type standing for the table
STATIC_ALIASES_BY_TYPE ==
    [ty \in AliasTypes |->
        IF ty = "community" THEN (<<"d","t">> :> <<"B","K">>)
        ELSE (<<"c","t">> :> <<"C","T">>)]

\* the resolver before any call
AliasIdle ==
    /\ configured = FALSE
    /\ alias_cache = [ty \in AliasTypes |-> EmptyMap]
    /\ alias_cache_loaded = [ty \in AliasTypes |-> FALSE]
    /\ alias_cache_lock = NoThread
    /\ loads = [ty \in AliasTypes |-> 0]
    /\ t_pc = [t \in Threads |-> "idle"]
    /\ t_input = [t \in Threads |-> <<>>]
    /\ t_type = [t \in Threads |-> "community"]
    /\ t_map = [t \in Threads |-> EmptyMap]
    /\ t_result = [t \in Threads |-> <<>>]
    /\ t_hit = [t \in Threads |-> "none"]
    /\ store_answers = {}
    /\ t_prior = [t \in Threads |-> <<>>]

\* a null: Python's None where a string is expected
NoPhone == <<"None">>

PhoneIdle ==
    /\ ph_pc = "idle"
    /\ ph_raw = NoPhone /\ ph_other = NoPhone
    /\ ph_key = NoPhone /\ ph_key2 = NoPhone
    /\ ph_match = FALSE

NameIdle ==
    /\ nm_pc = "idle" /\ nm_script = "populate"
    /\ nm_raw = <<>> /\ nm_key = <<>>

PropIdle ==
    /\ transactions = <<>> /\ pb_pc = "idle" /\ pb_builder = "none"
    /\ properties = {} /\ unique_properties = {}

\* {"error": "No data found"}
NoData == [error |-> "No data found"]

StatsIdle ==
    /\ ms_pc = "idle" /\ ms_records = <<>> /\ ms_poison = <<>>
    /\ ms_result = NoData /\ ms_result_p = NoData

ToolsIdle == PhoneIdle /\ NameIdle /\ PropIdle /\ StatsIdle

\* ---- the service components at rest ----
CompsIdle ==
    /\ cp_pc = "collect"
    /\ cp_entry = "none"
    /\ cp_records = <<>>
    /\ cp_size = 0
    /\ cp_building = <<>>
    /\ cp_result = [keys |-> {}, data |-> <<>>, estimated_price |-> [num |-> 0, den |-> 1]]
CorrIdle ==
    /\ cr_pc = "collect"
    /\ cr_sales = {}
    /\ cr_request = <<>>
    /\ cr_result = [keys |-> {}, columns |-> {}, overlapping_months |-> 0]
LookupIdle ==
    /\ lk_pc = "collect"
    /\ lk_owners = {}
    /\ lk_entry = "none"
    /\ lk_phone = <<>>
    /\ lk_name = <<>>
    /\ lk_fetches = <<>>
    /\ lk_outcome = [kind |-> "none", status |-> 0, message |-> "", owner_id |-> 0, property_count |-> 0]
ScoreIdle ==
    /\ sc_pc = "collect"
    /\ sc_records = <<>>
    /\ sc_result = [score |-> [num |-> 0, den |-> 1], factors |-> {}]
ContactsIdle ==
    /\ contact_cache = {}
    /\ owner_contacts = {}
    /\ ct_ingested = 0
    /\ ct_first = <<"", "">>
LinkIdle ==
    /\ ln_pc = "collect"
    /\ ln_buyer = 0
    /\ ln_owner = 0
SvcIdle == CompsIdle /\ CorrIdle /\ LookupIdle /\ ScoreIdle /\ ContactsIdle /\ LinkIdle
OtherCompsIdle == CorrIdle /\ LookupIdle /\ ScoreIdle /\ ContactsIdle /\ LinkIdle
OtherCorrIdle == CompsIdle /\ LookupIdle /\ ScoreIdle /\ ContactsIdle /\ LinkIdle
OtherLookupIdle == CompsIdle /\ CorrIdle /\ ScoreIdle /\ ContactsIdle /\ LinkIdle
OtherScoreIdle == CompsIdle /\ CorrIdle /\ LookupIdle /\ ContactsIdle /\ LinkIdle
OtherContactsIdle == CompsIdle /\ CorrIdle /\ LookupIdle /\ ScoreIdle /\ LinkIdle
OtherLinkIdle == CompsIdle /\ CorrIdle /\ LookupIdle /\ ScoreIdle /\ ContactsIdle
\* ---- end of the service rest states ----

InitCluster == ClusterStart /\ RerunIdle /\ FetchIdle /\ AliasIdle /\ ToolsIdle /\ SvcIdle
NextCluster == cluster_owners \/ cluster_owners_fast
SpecCluster == InitCluster /\ [][NextCluster]_vars

(***************************************************************************)
(* Two runs of the engine over the same identity sequence.  The runs share *)
(* no state, so they are advanced together, each with its own uuid4().     *)
(***************************************************************************)
MaxRerunOwners == 2

rerun_cluster_owners ==
    /\ engine = "fuzzy"
    /\ Len(owners) < MaxRerunOwners
    /\ \E idn \in Identities, u1 \in UUIDs \cup {None}, u2 \in UUIDs \cup {None} :
          /\ ClusterStep("fuzzy", idn, u1, owners, clusters, phone_to_cluster, name_to_cluster,
                         owners', clusters', phone_to_cluster', name_to_cluster')
          /\ ClusterStep("fuzzy", idn, u2, owners2, clusters2, phone_to_cluster2,
                         name_to_cluster2,
                         owners2', clusters2', phone_to_cluster2', name_to_cluster2')
    /\ UNCHANGED <<engine, nonClusterVars>>

rerun_cluster_owners_fast ==
    /\ engine = "fast"
    /\ Len(owners) < MaxRerunOwners
    /\ \E idn \in Identities, u1 \in UUIDs \cup {None}, u2 \in UUIDs \cup {None} :
          /\ ClusterStep("fast", idn, u1, owners, clusters, phone_to_cluster, name_to_cluster,
                         owners', clusters', phone_to_cluster', name_to_cluster')
          /\ ClusterStep("fast", idn, u2, owners2, clusters2, phone_to_cluster2,
                         name_to_cluster2,
                         owners2', clusters2', phone_to_cluster2', name_to_cluster2')
    /\ UNCHANGED <<engine, nonClusterVars>>

InitRerun == ClusterStart /\ RerunIdle /\ FetchIdle /\ AliasIdle /\ ToolsIdle /\ SvcIdle
NextRerun == rerun_cluster_owners \/ rerun_cluster_owners_fast
SpecRerun == InitRerun /\ [][NextRerun]_vars

(***************************************************************************)
(* Claims about the cluster engine                                         *)
(***************************************************************************)
Positions == 1..Len(owners)

\* the places (cluster, slot) where position i is listed
Memberships(cl, i) ==
    {<<c, k>> \in (DOMAIN cl) \X (1..(MaxOwners + 1)) : k <= Len(cl[c]) /\ cl[c][k] = i}

\* C1: after any sequence of identities, every processed identity is listed in
\* exactly one cluster, exactly once, under the cluster_id it was assigned, and
\* the clusters list nothing but processed identities.
C1_Partition ==
    /\ \A i \in Positions :
          /\ Cardinality(Memberships(clusters, i)) = 1
          /\ Memberships(clusters, i) \subseteq {owners[i].cluster_id} \X (1..(MaxOwners + 1))
    /\ \A c \in DOMAIN clusters : \A k \in 1..Len(clusters[c]) : clusters[c][k] \in Positions

\* three identities processed, grouped into two clusters of sizes 2 and 1
C1_Witness ==
    /\ Len(owners) = 3
    /\ Cardinality(DOMAIN clusters) = 2
    /\ \E c \in DOMAIN clusters : Len(clusters[c]) = 2

\* C2: two identities with the same non-empty normalized phone always carry
\* the same cluster_id, whatever their names and whatever came between them.
C2_PhonePrecedence ==
    \A i, j \in Positions :
        (owners[i].norm_phone # <<>> /\ owners[i].norm_phone = owners[j].norm_phone)
            => owners[i].cluster_id = owners[j].cluster_id

\* scenario A: two dissimilar names share a phone and are separated by a
\* phone-less, dissimilar identity: 2 clusters, sizes 2 and 1
C2_Witness ==
    /\ Len(owners) = 3
    /\ owners[1].norm_phone = <<"5">> /\ owners[3].norm_phone = <<"5">>
    /\ owners[1].norm_name = NameB /\ owners[3].norm_name = NameD
    /\ owners[2].norm_phone = <<>> /\ owners[2].norm_name = <<>>
    /\ owners[1].cluster_id = owners[3].cluster_id
    /\ owners[2].cluster_id # owners[1].cluster_id
    /\ Cardinality(DOMAIN clusters) = 2

IsPrefix(s, t) == Len(s) <= Len(t) /\ SubSeq(t, 1, Len(s)) = s

\* C3: a step never changes an assignment already made; it appends the current
\* identity to exactly one cluster and leaves every other member list as it was
\* (no cluster loses a member, is split, or is merged with another).
C3_Monotonic ==
    [][ /\ \A i \in Positions : owners'[i] = owners[i]
        /\ \A c \in DOMAIN clusters :
              c \in DOMAIN clusters' /\ IsPrefix(clusters[c], clusters'[c])
        /\ \E c \in DOMAIN clusters' :
              /\ clusters'[c] = (IF c \in DOMAIN clusters THEN clusters[c] ELSE <<>>)
                                  \o <<Len(owners) + 1>>
              /\ \A d \in DOMAIN clusters' \ {c} :
                    d \in DOMAIN clusters /\ clusters'[d] = clusters[d]
      ]_vars

\* a cluster that absorbed a second identity while another cluster exists
C3_Witness ==
    /\ Cardinality(DOMAIN clusters) >= 2
    /\ \E c \in DOMAIN clusters : Len(clusters[c]) >= 2 /\ clusters[c][1] = 1

\* C4: in cluster_owners, when the phone step misses and the normalized name is
\* non-empty, the identity joins the cluster mapped to the first name, in
\* insertion order, whose ratio is >= 90 (exactly 90 joins); with no such name a
\* fresh cluster is allocated; a later, better-scoring name is never preferred.
C4_FirstFuzzyMatch ==
    [][ (engine = "fuzzy" /\ Len(owners') = Len(owners) + 1) =>
          LET o     == owners'[Len(owners')]
              miss  == ~(o.norm_phone # <<>> /\ o.norm_phone \in DOMAIN phone_to_cluster)
              ok(i) == RatioOf[o.norm_name][name_to_cluster[i].name] >= 9000
              hits  == {i \in 1..Len(name_to_cluster) : ok(i)}
          IN  (miss /\ o.norm_name # <<>>) =>
                IF hits = {}
                THEN o.cluster_id \notin DOMAIN clusters
                ELSE \E i \in hits : /\ \A k \in hits : i <= k
                                     /\ o.cluster_id = name_to_cluster[i].cluster
      ]_vars

\* NameB, NameD, NameA without phones: NameA scores exactly 90 against the first
\* name and 95.2 against the second, and joins the first; NameD (85.7 against
\* NameB) had opened its own cluster
C4_Witness ==
    /\ engine = "fuzzy"
    /\ Len(owners) = 3
    /\ \A i \in 1..3 : owners[i].norm_phone = <<>>
    /\ owners[1].norm_name = NameB /\ owners[2].norm_name = NameD
    /\ owners[3].norm_name = NameA
    /\ FuzzRatio(NameA, NameB) = 9000
    /\ FuzzRatio(NameA, NameD) > 9000
    /\ FuzzRatio(NameB, NameD) < 9000
    /\ owners[3].cluster_id = owners[1].cluster_id
    /\ owners[2].cluster_id # owners[1].cluster_id

\* C5 as stated: two runs over the same identities yield the same
\* identity -> cluster_id mapping, with the same cluster_id values.
C5_SameClusterIds ==
    \A i \in Positions :
        i <= Len(owners2) => owners2[i].cluster_id = owners[i].cluster_id

\* C5 amended: two runs over the same identities yield the same grouping (two
\* identities share a cluster in one run exactly when they do in the other);
\* the cluster_id values are fresh uuid4() draws and may differ.
C5_SameGrouping ==
    /\ Len(owners2) = Len(owners)
    /\ \A i, j \in Positions :
          /\ owners2[i].raw_name = owners[i].raw_name
          /\ owners2[i].raw_phone = owners[i].raw_phone
          /\ (owners[i].cluster_id = owners[j].cluster_id)
                <=> (owners2[i].cluster_id = owners2[j].cluster_id)

\* both runs grouped two identities into one cluster, under different ids
C5_Witness ==
    /\ Len(owners) = 2 /\ Len(owners2) = 2
    /\ owners[1].cluster_id = owners[2].cluster_id
    /\ owners2[1].cluster_id = owners2[2].cluster_id
    /\ owners[1].cluster_id # owners2[1].cluster_id

(***************************************************************************)
(* RecordFetcher: _fetch_page / fetch_transactions / fetch_owners /        *)
(* fetch_properties of AnalyticsEngine over neon_client.select, and the    *)
(* script's fetch_all_transactions over requests.get                       *)
(***************************************************************************)
TransportError == 0                      \* the request raised before any status
Statuses == {200, 404, 500, TransportError}

Source == [i \in 1..src_n |-> i]         \* the stably ordered records, by id

\* the rows a successful request with limit = PageSize returns at offset off
Page(off) == SubSeq(Source, off + 1, Min(off + PageSize, src_n))

\* a variant of select() that turns every HTTP error status into an empty list
SelectSwallowsAll(status) == status >= 400

\* select(): a 404 is answered with [] instead of raising
SelectSwallows(status) == status = 404

\* a variant that advances by one, as if the offset were a page number
NextOffsetPageNo(off, rows) == off + 1

\* offset += page_size
NextOffset(off, rows) == off + PageSize

\* offset += len(batch)
NextOffsetScript(off, rows) == off + Len(rows)

Request(off, status) == [offset |-> off, status |-> status]

\* the body of the while loop once _fetch_page has returned rows
ConsumePage(rows, answered) ==
    /\ all_data' = all_data \o rows
    /\ page_log' = Append(page_log, [offset |-> f_offset, answered |-> answered])
    /\ f_attempt' = 0
    /\ IF rows = <<>> \/ Len(rows) < PageSize
       THEN f_pc' = "returned" /\ f_offset' = f_offset
       ELSE f_pc' = "fetching" /\ f_offset' = NextOffset(f_offset, rows)

\* select() returns: status 200 with the page, or a swallowed status with []
select_returns ==
    /\ fetcher = "engine" /\ f_pc = "fetching"
    /\ f_attempt < max_retries
    /\ \E status \in Statuses :
          /\ status = 200 \/ (status # TransportError /\ SelectSwallows(status))
          /\ requests' = Append(requests, Request(f_offset, status))
          /\ ConsumePage(IF status = 200 THEN Page(f_offset) ELSE <<>>, TRUE)
    /\ UNCHANGED <<fetcher, src_n, max_retries, nonFetchVars>>

\* select() raises: _fetch_page sleeps and retries, or re-raises on the last attempt
select_raises ==
    /\ fetcher = "engine" /\ f_pc = "fetching"
    /\ f_attempt < max_retries
    /\ \E status \in Statuses :
          /\ status # 200
          /\ status = TransportError \/ ~SelectSwallows(status)
          /\ requests' = Append(requests, Request(f_offset, status))
    /\ IF f_attempt = max_retries - 1
       THEN f_pc' = "raised" /\ f_attempt' = f_attempt
       ELSE f_pc' = "fetching" /\ f_attempt' = f_attempt + 1
    /\ UNCHANGED <<fetcher, src_n, max_retries, f_offset, all_data, page_log, nonFetchVars>>

\* range(max_retries) is empty: _fetch_page falls through to `return []`
fetch_page_falls_through ==
    /\ fetcher = "engine" /\ f_pc = "fetching"
    /\ max_retries <= 0
    /\ ConsumePage(<<>>, FALSE)
    /\ UNCHANGED <<fetcher, src_n, max_retries, requests, nonFetchVars>>

\* fetch_all_transactions: one requests.get that succeeds
script_get_ok ==
    /\ fetcher = "script" /\ f_pc = "fetching"
    /\ requests' = Append(requests, Request(f_offset, 200))
    /\ LET batch == Page(f_offset)
       IN  IF batch = <<>>
           THEN /\ f_pc' = "returned"
                /\ UNCHANGED <<all_data, f_offset>>
           ELSE /\ all_data' = all_data \o batch
                /\ f_offset' = NextOffsetScript(f_offset, batch)
                /\ f_pc' = IF Len(batch) < PageSize THEN "returned" ELSE "fetching"
    /\ page_log' = Append(page_log, [offset |-> f_offset, answered |-> TRUE])
    /\ UNCHANGED <<fetcher, src_n, max_retries, f_attempt, nonFetchVars>>

\* fetch_all_transactions: requests.get raises, or raise_for_status() does
script_get_fails ==
    /\ fetcher = "script" /\ f_pc = "fetching"
    /\ \E status \in Statuses \ {200} :
          requests' = Append(requests, Request(f_offset, status))
    /\ f_pc' = "raised"
    /\ UNCHANGED <<fetcher, src_n, max_retries, f_offset, f_attempt, all_data, page_log,
                   nonFetchVars>>

ClusterIdle ==
    /\ engine = "fuzzy" /\ owners = <<>> /\ clusters = EmptyMap
    /\ phone_to_cluster = EmptyMap /\ name_to_cluster = <<>>

FetchStart ==
    /\ fetcher \in {"engine", "script"}
    /\ src_n \in 0..MaxRecords
    /\ max_retries \in 0..MaxRetries
    /\ f_pc = "fetching" /\ f_offset = 0 /\ f_attempt = 0
    /\ all_data = <<>> /\ requests = <<>> /\ page_log = <<>>

InitFetch == FetchStart /\ ClusterIdle /\ RerunIdle /\ AliasIdle /\ ToolsIdle /\ SvcIdle
NextFetch ==
    \/ select_returns \/ select_raises \/ fetch_page_falls_through
    \/ script_get_ok \/ script_get_fails
SpecFetch == InitFetch /\ [][NextFetch]_vars

(***************************************************************************)
(* Claims about the fetcher                                                *)
(***************************************************************************)
RequestsAt(off) == {i \in 1..Len(requests) : requests[i].offset = off}
Offsets == {requests[i].offset : i \in 1..Len(requests)}
LastRequestAt(off) == CHOOSE i \in RequestsAt(off) : \A k \in RequestsAt(off) : k <= i

\* select() handed rows back to _fetch_page for this request
Returned(status) == status = 200 \/ status = 404

\* C6: for every max_retries, a page fetch calls the source at most
\* max_retries times, stops at the first request that returns, and the
\* enclosing fetch never returns a record set when a page fetch ended without
\* any request having returned.
C6_RetryContract ==
    fetcher = "engine" =>
      /\ \A off \in Offsets : Cardinality(RequestsAt(off)) <= max_retries
      /\ \A i, k \in 1..Len(requests) :
            (i < k /\ requests[i].offset = requests[k].offset)
                => ~Returned(requests[i].status)
      /\ f_pc = "returned" => \A k \in 1..Len(page_log) : page_log[k].answered

C8_NoErrorBecomesData ==
    (fetcher = "engine" /\ f_pc = "returned") =>
        \A off \in Offsets : requests[LastRequestAt(off)].status = 200

\* C8 amended: a page whose last request ended in a transport exception or an
\* HTTP error status other than 404 makes the operation fail; a 404 is answered
\* by select() with an empty page, which ends the fetch with the records of the
\* pages before it.
C8_OnlyNotFoundBecomesData ==
    fetcher = "engine" =>
      /\ f_pc = "returned" =>
            \A off \in Offsets : requests[LastRequestAt(off)].status \in {200, 404}
      /\ \A off \in Offsets :
            LET st == requests[LastRequestAt(off)].status
            IN  /\ (st = 404) => (f_pc = "returned" /\ all_data = SubSeq(Source, 1, off))
                /\ (st \notin {200, 404} /\ Cardinality(RequestsAt(off)) = max_retries)
                      => f_pc = "raised"

\* a first page was fetched, then every attempt for the second page failed with
\* status 500: the operation raised and returned nothing
C8_Witness ==
    /\ fetcher = "engine" /\ f_pc = "raised"
    /\ all_data # <<>>
    /\ max_retries >= 2
    /\ Cardinality(RequestsAt(f_offset)) = max_retries
    /\ \A i \in RequestsAt(f_offset) : requests[i].status = 500

\* C28: against a stable source of n records with page size P and all
\* requests succeeding, every paginated fetch loop ends after exactly
\* floor(n / P) + 1 page requests, issued at offsets 0, P, 2P, ...: it stops
\* at the first page shorter than P and issues no request after it.
C28_RequestCount ==
    ( /\ f_pc = "returned"
      /\ \A i \in 1..Len(requests) : requests[i].status = 200 )
        => /\ Len(requests) = src_n \div PageSize + 1
           /\ \A i \in 1..Len(requests) : requests[i].offset = (i - 1) * PageSize

(***************************************************************************)
(* AliasResolver: _resolve_alias, _get_alias_map, lookup_alias_in_db       *)
(***************************************************************************)
\* the rows of the persistent aliases table
AliasStore ==
    { [alias |-> <<"m","a">>, type |-> "community", canonical |-> <<"D","M">>, confidence |-> 9],
      [alias |-> <<"M","a">>, type |-> "community", canonical |-> <<"D","X">>, confidence |-> 5],
      [alias |-> <<"m","a">>, type |-> "building",  canonical |-> <<"M","T">>, confidence |-> 8],
      [alias |-> <<" ","m","a">>, type |-> "building", canonical |-> <<"M","S">>, confidence |-> 7] }

\* the user inputs tried: "", "m", "Ma", " ma", "z" (unregistered), "Dt" (static)
AliasInputs == { <<>>, <<"m">>, <<"M","a">>, <<" ","m","a">>, <<"z">>, <<"D","t">> }

\* what a request to the store can end in
StoreOutcomes == {"ok", "status", "exception", "malformed"}

\* order=confidence.desc
RECURSIVE ByConfidence(_)
ByConfidence(rows) ==
    IF rows = {} THEN <<>>
    ELSE LET top == CHOOSE r \in rows : \A q \in rows : q.confidence <= r.confidence
         IN  <<top>> \o ByConfidence(rows \ {top})

\* type=eq.{alias_type}, order=confidence.desc
RowsOfType(ty) == ByConfidence({r \in AliasStore : r.type = ty})

\* the for-row loop of _get_alias_map over the first k rows
RECURSIVE MergeRows(_, _, _)
MergeRows(map, rows, k) ==
    IF k = 0 \/ rows = <<>> THEN map
    ELSE LET alias     == LowerStr(Strip(Head(rows).alias))
             canonical == Strip(Head(rows).canonical)
         IN  MergeRows(IF alias # <<>> /\ canonical # <<>>
                       THEN (alias :> canonical) @@ map ELSE map,
                       Tail(rows), k - 1)

\* alias=ilike.{alias}: a pattern without wildcards matches case-insensitively, whole
IlikeMatch(stored, pattern) == LowerStr(stored) = LowerStr(pattern)

\* the rows lookup_alias_in_db's query selects (before limit=1)
DbMatches(alias, ty) ==
    {r \in AliasStore : r.type = ty /\ IlikeMatch(r.alias, alias)}

\* a variant whose handler catches only the transport exceptions of requests
HandlesOnlyTransport(outcome) == outcome = "exception"

\* except Exception: pass
HandlesException(outcome) == TRUE

Raises(outcome) == outcome \in {"exception", "malformed"}

Set1(f, t, v) == [f EXCEPT ![t] = v]

\* the canonical name the store has already answered for (x, ty), <<>> if none
PriorAnswer(x, ty) ==
    IF \E a \in store_answers : a.input = x /\ a.type = ty
    THEN (CHOOSE a \in store_answers : a.input = x /\ a.type = ty).canonical
    ELSE <<>>

\* _resolve_alias entry
resolve_call(t) ==
    /\ t_pc[t] \in {"idle", "done"}
    /\ \E x \in AliasInputs, ty \in AliasTypes :
          /\ t_input' = Set1(t_input, t, x)
          /\ t_type' = Set1(t_type, t, ty)
          /\ t_prior' = Set1(t_prior, t, PriorAnswer(x, ty))
          /\ IF x = <<>>
             THEN /\ t_pc' = Set1(t_pc, t, "done")      \* if not user_input: return user_input
                  /\ t_result' = Set1(t_result, t, x)
                  /\ t_hit' = Set1(t_hit, t, "empty")
             ELSE /\ t_pc' = Set1(t_pc, t, "check")
                  /\ t_result' = Set1(t_result, t, <<>>)
                  /\ t_hit' = Set1(t_hit, t, "none")
    /\ UNCHANGED <<configured, alias_cache, alias_cache_loaded, alias_cache_lock, loads,
                   t_map, store_answers, nonAliasVars>>

\* _get_alias_map: the unlocked test of the loaded flag
gam_check(t) ==
    /\ t_pc[t] = "check"
    /\ t_pc' = Set1(t_pc, t, IF alias_cache_loaded[t_type[t]] THEN "lookup" ELSE "lock")
    /\ UNCHANGED <<configured, alias_cache, alias_cache_loaded, alias_cache_lock, loads,
                   t_input, t_type, t_map, t_result, t_hit, aliasHist, nonAliasVars>>

\* with _alias_cache_lock:
gam_acquire(t) ==
    /\ t_pc[t] = "lock"
    /\ alias_cache_lock = NoThread
    /\ alias_cache_lock' = t
    /\ t_pc' = Set1(t_pc, t, "recheck")
    /\ UNCHANGED <<configured, alias_cache, alias_cache_loaded, loads,
                   t_input, t_type, t_map, t_result, t_hit, aliasHist, nonAliasVars>>

\* the second test, under the lock, found the cache loaded
gam_recheck_loaded(t) ==
    /\ t_pc[t] = "recheck"
    /\ alias_cache_loaded[t_type[t]]
    /\ alias_cache_lock' = NoThread
    /\ t_pc' = Set1(t_pc, t, "lookup")
    /\ UNCHANGED <<configured, alias_cache, alias_cache_loaded, loads,
                   t_input, t_type, t_map, t_result, t_hit, aliasHist, nonAliasVars>>

\* a variant without the second test: whoever gets the lock loads
NeedsLoadAlways(ty) == TRUE

\* if _alias_cache_loaded.get(alias_type): return ..., under the lock
NeedsLoad(ty) == ~alias_cache_loaded[ty]

\* a variant that starts the map empty instead of from the static table
SeedEmpty(ty) == EmptyMap

\* alias_map = dict(STATIC_ALIASES_BY_TYPE.get(alias_type, {}))
SeedMap(ty) == STATIC_ALIASES_BY_TYPE[ty]

\* the load: copy the static table, query the store, merge the rows
gam_load(t) ==
    /\ t_pc[t] = "recheck"
    /\ NeedsLoad(t_type[t])
    /\ LET ty     == t_type[t]
           static == SeedMap(ty)
           rows   == RowsOfType(ty)
       IN  IF ~configured
           THEN /\ t_map' = Set1(t_map, t, static)
                /\ t_pc' = Set1(t_pc, t, "publish")
                /\ UNCHANGED <<loads, alias_cache_lock>>
           ELSE \E outcome \in StoreOutcomes, k \in 0..Len(rows) :
                  /\ (outcome = "ok") => k = Len(rows)
                  /\ (outcome \in {"status", "exception"}) => k = 0
                  /\ (outcome = "malformed") => k < Len(rows)
                  /\ loads' = [loads EXCEPT ![ty] = @ + 1]
                  /\ IF Raises(outcome) /\ ~HandlesException(outcome)
                     THEN /\ t_pc' = Set1(t_pc, t, "raised")
                          /\ alias_cache_lock' = NoThread
                          /\ UNCHANGED t_map
                     ELSE /\ t_map' = Set1(t_map, t, MergeRows(static, rows, k))
                          /\ t_pc' = Set1(t_pc, t, "publish")
                          /\ UNCHANGED alias_cache_lock
    /\ UNCHANGED <<configured, alias_cache, alias_cache_loaded,
                   t_input, t_type, t_result, t_hit, aliasHist, nonAliasVars>>

\* _alias_cache[alias_type] = alias_map
gam_publish(t) ==
    /\ t_pc[t] = "publish"
    /\ alias_cache' = [alias_cache EXCEPT ![t_type[t]] = t_map[t]]
    /\ t_pc' = Set1(t_pc, t, "flag")
    /\ UNCHANGED <<configured, alias_cache_loaded, alias_cache_lock, loads,
                   t_input, t_type, t_map, t_result, t_hit, aliasHist, nonAliasVars>>

\* _alias_cache_loaded[alias_type] = True; return (the lock is released)
gam_set_loaded(t) ==
    /\ t_pc[t] = "flag"
    /\ alias_cache_loaded' = [alias_cache_loaded EXCEPT ![t_type[t]] = TRUE]
    /\ alias_cache_lock' = NoThread
    /\ t_pc' = Set1(t_pc, t, "lookup")
    /\ UNCHANGED <<configured, alias_cache, loads,
                   t_input, t_type, t_map, t_result, t_hit, aliasHist, nonAliasVars>>

\* normalized = user_input.strip().lower(); if normalized in alias_map: return ...
exact_lookup(t) ==
    /\ t_pc[t] = "lookup"
    /\ LET normalized == LowerStr(Strip(t_input[t]))
           alias_map  == alias_cache[t_type[t]]
       IN  IF normalized \in DOMAIN alias_map
           THEN /\ t_result' = Set1(t_result, t, alias_map[normalized])
                /\ t_hit' = Set1(t_hit, t, "cache")
                /\ t_pc' = Set1(t_pc, t, "done")
           ELSE /\ t_pc' = Set1(t_pc, t, "db")
                /\ UNCHANGED <<t_result, t_hit>>
    /\ UNCHANGED <<configured, alias_cache, alias_cache_loaded, alias_cache_lock, loads,
                   t_input, t_type, t_map, aliasHist, nonAliasVars>>

\* canonical = lookup_alias_in_db(user_input, alias_type); return canonical or user_input
lookup_alias_in_db(t) ==
    /\ t_pc[t] = "db"
    /\ LET x  == t_input[t]
           ty == t_type[t]
           miss(why) == /\ t_result' = Set1(t_result, t, x)
                        /\ t_hit' = Set1(t_hit, t, why)
                        /\ t_pc' = Set1(t_pc, t, "done")
                        /\ UNCHANGED <<alias_cache, store_answers>>
       IN  IF ~configured THEN miss("unavailable")
           ELSE \E outcome \in StoreOutcomes :
                  IF Raises(outcome) /\ ~HandlesException(outcome)
                  THEN /\ t_pc' = Set1(t_pc, t, "raised")
                       /\ UNCHANGED <<t_result, t_hit, alias_cache, store_answers>>
                  ELSE IF outcome # "ok" THEN miss("unavailable")
                  ELSE IF DbMatches(x, ty) = {} THEN miss("none")
                  ELSE \E r \in DbMatches(x, ty) :
                         /\ \A q \in DbMatches(x, ty) : q.confidence <= r.confidence
                         /\ alias_cache' = [alias_cache EXCEPT
                                              ![ty] = (LowerStr(x) :> r.canonical) @@ @]
                         /\ t_result' = Set1(t_result, t,
                                             IF r.canonical # <<>> THEN r.canonical ELSE x)
                         /\ t_hit' = Set1(t_hit, t, "store")
                         /\ t_pc' = Set1(t_pc, t, "done")
                         /\ store_answers' = store_answers \cup
                               {[input |-> x, type |-> ty, canonical |-> r.canonical]}
    /\ UNCHANGED <<configured, alias_cache_loaded, alias_cache_lock, loads,
                   t_input, t_type, t_map, t_prior, nonAliasVars>>

AliasStart ==
    /\ configured \in BOOLEAN
    /\ alias_cache = [ty \in AliasTypes |-> EmptyMap]
    /\ alias_cache_loaded = [ty \in AliasTypes |-> FALSE]
    /\ alias_cache_lock = NoThread
    /\ loads = [ty \in AliasTypes |-> 0]
    /\ t_pc = [t \in Threads |-> "idle"]
    /\ t_input = [t \in Threads |-> <<>>]
    /\ t_type = [t \in Threads |-> "community"]
    /\ t_map = [t \in Threads |-> EmptyMap]
    /\ t_result = [t \in Threads |-> <<>>]
    /\ t_hit = [t \in Threads |-> "none"]
    /\ store_answers = {}
    /\ t_prior = [t \in Threads |-> <<>>]

InitAlias == AliasStart /\ ClusterIdle /\ RerunIdle /\ FetchIdle /\ ToolsIdle /\ SvcIdle
NextAlias ==
    \E t \in Threads :
        \/ resolve_call(t) \/ gam_check(t) \/ gam_acquire(t) \/ gam_recheck_loaded(t)
        \/ gam_load(t) \/ gam_publish(t) \/ gam_set_loaded(t)
        \/ exact_lookup(t) \/ lookup_alias_in_db(t)
SpecAlias == InitAlias /\ [][NextAlias]_vars

(***************************************************************************)
(* Claims about the alias resolver                                         *)
(***************************************************************************)
\* C9: resolve_community_alias / resolve_building_alias never raise, whatever
\* the store does; when neither the cache nor the store yields a match they
\* return the input string itself, unchanged and not null.
C9_NeverRaises ==
    \A t \in Threads :
        /\ t_pc[t] # "raised"
        /\ (t_pc[t] = "done" /\ t_hit[t] \in {"none", "unavailable", "empty"})
              => t_result[t] = t_input[t]

\* the unregistered name "z" was resolved while the configured store failed
\* on the load and on the lookup: the input came back unchanged
C9_Witness ==
    \E t \in Threads :
        /\ configured
        /\ t_pc[t] = "done" /\ t_input[t] = <<"z">>
        /\ t_hit[t] = "unavailable"
        /\ alias_cache_loaded[t_type[t]]
        /\ alias_cache[t_type[t]] = STATIC_ALIASES_BY_TYPE[t_type[t]]
        /\ t_result[t] = <<"z">> /\ t_result[t] # <<>>

\* the stored aliases of a type that contain the input or are contained in it
PartialMatches(x, ty) ==
    {r \in AliasStore :
        /\ r.type = ty
        /\ \/ Contains(LowerStr(r.alias), LowerStr(x))
           \/ Contains(LowerStr(x), LowerStr(r.alias))}

\* C10: with no exact match in the cached map and the store answering, resolve
\* returns the canonical name of the highest-confidence stored alias of the
\* type that contains the input or is contained in it, and the input itself
\* only when no stored alias partially matches.
C10_PartialMatch ==
    \A t \in Threads :
        (t_pc[t] = "done" /\ t_hit[t] \in {"none", "store"}) =>
            LET pm == PartialMatches(t_input[t], t_type[t])
            IN  IF pm = {} THEN t_result[t] = t_input[t]
                ELSE \E r \in pm : /\ \A q \in pm : q.confidence <= r.confidence
                                   /\ t_result[t] = r.canonical

\* C11: once the store has answered resolve(x, type), every later
\* resolve(x, type) for the same input string x, whatever its case or
\* surrounding whitespace, is answered by the exact cache match with the same
\* canonical name, and the store is not queried again.
C11_CachedAfterStoreHit ==
    \A t \in Threads :
        t_prior[t] # <<>> =>
            /\ t_pc[t] # "db"
            /\ t_pc[t] = "done" => (t_hit[t] = "cache" /\ t_result[t] = t_prior[t])

\* C12 as stated: the store is fully loaded at most once per type (also when
\* the load failed), a caller past _get_alias_map sees the loaded flag set,
\* and no caller holds the lock for a type whose loaded flag is true.
C12_NoLockOnceLoaded ==
    /\ \A ty \in AliasTypes : loads[ty] <= 1
    /\ \A t \in Threads : t_pc[t] \in {"lookup", "db"} => alias_cache_loaded[t_type[t]]
    /\ \A t \in Threads : alias_cache_lock = t => ~alias_cache_loaded[t_type[t]]

\* C12 amended: the store is fully loaded at most once per type (also when the
\* load failed) and a caller past _get_alias_map sees the loaded flag set; a
\* caller that tests the flag when it is true goes on without the lock, and a
\* caller that had tested it earlier still takes the lock once, finds the flag
\* set under the lock and goes on without loading.
C12_LoadOnce ==
    /\ [](\A ty \in AliasTypes : loads[ty] <= 1)
    /\ [](\A t \in Threads :
            t_pc[t] \in {"lookup", "db"} => alias_cache_loaded[t_type[t]])
    /\ [][\A t \in Threads :
            (t_pc[t] = "check" /\ alias_cache_loaded[t_type[t]]) =>
                (t_pc'[t] \in {"check", "lookup"} /\ alias_cache_lock' # t)]_vars
    /\ [][\A t \in Threads :
            (alias_cache_lock = t /\ alias_cache_loaded[t_type[t]]) =>
                /\ loads' = loads
                /\ t_pc'[t] \in {"recheck", "lookup"}]_vars

\* both callers raced for the building type: one loaded the store once and the
\* load failed, the other then got the lock with the flag already set
C12_Witness ==
    \E t \in Threads :
        /\ configured
        /\ t_type[t] = "building" /\ alias_cache_lock = t /\ t_pc[t] = "recheck"
        /\ alias_cache_loaded["building"] /\ loads["building"] = 1
        /\ alias_cache["building"] = STATIC_ALIASES_BY_TYPE["building"]

\* the canonical names a key of a type can stand for: the static one and
\* those of the stored rows whose alias normalises to the key
CanonicalsOf(key, ty) ==
    (IF key \in DOMAIN STATIC_ALIASES_BY_TYPE[ty]
     THEN {STATIC_ALIASES_BY_TYPE[ty][key]} ELSE {})
    \cup {Strip(r.canonical) : r \in {q \in AliasStore :
                q.type = ty /\ LowerStr(Strip(q.alias)) = key}}

\* C13: whenever the loaded flag of a type is true the published map holds
\* every key of the type's static table, and no key is removed afterwards; so
\* a static alias always resolves from the cache to a canonical name, also
\* when the store is unreachable.
C13_StaticSeeded ==
    /\ [](\A ty \in AliasTypes :
            alias_cache_loaded[ty] =>
                DOMAIN STATIC_ALIASES_BY_TYPE[ty] \subseteq DOMAIN alias_cache[ty])
    /\ [][\A ty \in AliasTypes :
            alias_cache_loaded[ty] =>
                DOMAIN alias_cache[ty] \subseteq DOMAIN alias_cache'[ty]]_vars
    /\ [](\A t \in Threads :
            LET key == LowerStr(Strip(t_input[t]))
            IN  (t_pc[t] = "done" /\ key \in DOMAIN STATIC_ALIASES_BY_TYPE[t_type[t]]) =>
                    /\ t_hit[t] = "cache"
                    /\ t_result[t] \in CanonicalsOf(key, t_type[t]))

\* the static community alias "Dt" was resolved to "BK" from the cache after
\* the one load of the configured store had failed
C13_Witness ==
    \E t \in Threads :
        /\ configured /\ loads["community"] = 1
        /\ alias_cache_loaded["community"]
        /\ alias_cache["community"] = STATIC_ALIASES_BY_TYPE["community"]
        /\ t_pc[t] = "done" /\ t_type[t] = "community" /\ t_input[t] = <<"D","t">>
        /\ t_hit[t] = "cache" /\ t_result[t] = <<"B","K">>

(***************************************************************************)
(* Phone keys (backend/utils/phone_utils.py)                               *)
(***************************************************************************)
MaxPhoneDigits == 10   \* digits taken from a pattern to build an input

SubscriberLen == 9     \* digits of a subscriber number
CountryLen    == 12    \* digits of the country-code form: 971 + 9
LocalLen      == 10    \* digits of the local form: 0 + 9

Digits10 == {"0", "1", "2", "3", "4", "5", "6", "7", "8", "9"}
IsDigit(c) == c \in Digits10

CountryCode == <<"9", "7", "1">>
PlusCountry == <<"+", "9", "7", "1">>

\* re.sub(r'\D', '', raw_phone)
DigitsOf(raw_phone) == SelectSeq(raw_phone, IsDigit)

\* a variant that answers the country-code form with the local form
CountryCodeFormAsLocal(digits) == <<"0">> \o SubSeq(digits, 4, Len(digits))

\* return '+' + digits
CountryCodeForm(digits) == <<"+">> \o digits

\* a variant that keeps the leading 0 of the local form
LocalFormKeepZero(digits) == PlusCountry \o digits

\* return '+971' + digits[1:]
LocalForm(digits) == PlusCountry \o Tail(digits)

\* return '+971' + digits
BareForm(digits) == PlusCountry \o digits

\* return '+971' + digits[-9:]
Salvage(digits) ==
    PlusCountry \o SubSeq(digits, Len(digits) - SubscriberLen + 1, Len(digits))

normalize_phone(raw_phone) ==
    IF raw_phone = NoPhone \/ raw_phone = <<>> THEN NoPhone
    ELSE LET digits == DigitsOf(raw_phone)
         IN  IF digits = <<>> THEN NoPhone
             ELSE IF StartsWith(digits, CountryCode) /\ Len(digits) = CountryLen
                  THEN CountryCodeForm(digits)
             ELSE IF ~StartsWith(digits, CountryCode) /\ StartsWith(digits, <<"0">>)
                     /\ Len(digits) = LocalLen
                  THEN LocalForm(digits)
             ELSE IF ~StartsWith(digits, CountryCode) /\ ~StartsWith(digits, <<"0">>)
                     /\ Len(digits) = SubscriberLen
                  THEN BareForm(digits)
             ELSE IF Len(digits) >= SubscriberLen THEN Salvage(digits)
             ELSE NoPhone

phones_match(phone1, phone2) ==
    LET norm1 == normalize_phone(phone1)
        norm2 == normalize_phone(phone2)
    IN  IF norm1 = NoPhone \/ norm2 = NoPhone THEN FALSE ELSE norm1 = norm2

\* digit patterns the inputs are cut from; the first nine digits of each are
\* a subscriber number (an ordinary one, one beginning 971, one beginning 0)
PhonePatterns ==
    { <<"5","0","1","2","3","4","5","6","7","8","9">>,
      <<"9","7","1","2","3","4","5","6","7","8","0">>,
      <<"0","1","2","3","4","5","6","7","8","9","5">> }
Subscribers == {SubSeq(pat, 1, SubscriberLen) : pat \in PhonePatterns}

PhonePrefixes == { <<>>, <<"0">>, CountryCode, PlusCountry, <<"0","0">> \o CountryCode }
Separators == { <<>>, <<" ">>, <<"-">> }

\* s written in groups of three characters separated by sep
RECURSIVE Grouped(_, _)
Grouped(s, sep) ==
    IF Len(s) <= 3 THEN s
    ELSE SubSeq(s, 1, 3) \o sep \o Grouped(SubSeq(s, 4, Len(s)), sep)

PhoneInputs ==
    {NoPhone, <<>>, <<"n","/","a">>} \cup
    {Grouped(pre \o SubSeq(pat, 1, Min(k, Len(pat))), sep) :
        pre \in PhonePrefixes, pat \in PhonePatterns,
        k \in 0..MaxPhoneDigits, sep \in Separators}

\* the ways one subscriber number is written
FormsOf(sub) ==
    {Grouped(pre \o sub, sep) :
        pre \in {<<>>, <<"0">>, CountryCode, PlusCountry}, sep \in Separators}

PhoneOthers ==
    {NoPhone, <<"5","5","5">>} \cup
    {pre \o sub : pre \in PhonePrefixes, sub \in Subscribers}

\* key = normalize_phone(raw)
normalize_phone_call ==
    /\ ph_pc = "start"
    /\ ph_key' = normalize_phone(ph_raw)
    /\ ph_pc' = "normalized"
    /\ UNCHANGED <<ph_raw, ph_other, ph_key2, ph_match, nonPhoneVars>>

\* normalize_phone applied to a key it returned
renormalize_call ==
    /\ ph_pc = "normalized" /\ ph_key # NoPhone
    /\ ph_key2' = normalize_phone(ph_key)
    /\ ph_pc' = "renormalized"
    /\ UNCHANGED <<ph_raw, ph_other, ph_key, ph_match, nonPhoneVars>>

phones_match_call ==
    /\ \/ ph_pc = "renormalized"
       \/ ph_pc = "normalized" /\ ph_key = NoPhone
    /\ ph_match' = phones_match(ph_raw, ph_other)
    /\ ph_pc' = "matched"
    /\ UNCHANGED <<ph_raw, ph_other, ph_key, ph_key2, nonPhoneVars>>

CoreIdle == ClusterIdle /\ RerunIdle /\ FetchIdle /\ AliasIdle

PhoneStart ==
    /\ ph_pc = "start"
    /\ ph_raw \in PhoneInputs /\ ph_other \in PhoneOthers
    /\ ph_key = NoPhone /\ ph_key2 = NoPhone
    /\ ph_match = FALSE

InitPhone == PhoneStart /\ CoreIdle /\ NameIdle /\ PropIdle /\ StatsIdle /\ SvcIdle
NextPhone == normalize_phone_call \/ renormalize_call \/ phones_match_call
SpecPhone == InitPhone /\ [][NextPhone]_vars

\* C14: normalize_phone is idempotent on its output: when normalize_phone(x)
\* is not null, normalize_phone(normalize_phone(x)) = normalize_phone(x).
C14_Idempotent ==
    (ph_pc \in {"renormalized", "matched"} /\ ph_key # NoPhone) => ph_key2 = ph_key

\* the local form 050 123 4567 gave +971501234567, and so did that key again
C14_Witness ==
    /\ ph_pc = "renormalized"
    /\ ph_raw = <<"0","5","0"," ","1","2","3"," ","4","5","6"," ","7">>
    /\ ph_key = <<"+","9","7","1","5","0","1","2","3","4","5","6","7">>
    /\ ph_key2 = ph_key

\* '+971' followed by exactly nine digits
IsPhoneKey(k) ==
    /\ Len(k) = Len(PlusCountry) + SubscriberLen
    /\ StartsWith(k, PlusCountry)
    /\ \A i \in (Len(PlusCountry) + 1)..Len(k) : IsDigit(k[i])

\* C15: normalize_phone returns null when fewer than 9 digits remain after
\* stripping non-digits and otherwise '+971' followed by exactly 9 digits; the
\* local, country-code (with or without '+', spaces, dashes) and bare forms of
\* one subscriber number give the same key; phones_match(a, b) is true
\* exactly when both normalize to the same non-null key.
C15_KeyContract ==
    /\ ph_pc \in {"normalized", "renormalized", "matched"} =>
          /\ (ph_key = NoPhone) <=> (Len(DigitsOf(ph_raw)) < 9)
          /\ ph_key # NoPhone => IsPhoneKey(ph_key)
          /\ \A sub \in Subscribers :
                ph_raw \in FormsOf(sub) => ph_key = PlusCountry \o sub
    /\ ph_pc = "matched" =>
          /\ ph_match <=> (ph_key # NoPhone /\ ph_key = normalize_phone(ph_other))
          /\ \A sub \in Subscribers :
                (ph_raw \in FormsOf(sub) /\ ph_other \in FormsOf(sub)) => ph_match

\* the local form 050-123-456-7 was matched with the country-code form
\* 971501234567 of the same subscriber number
C15_Witness ==
    /\ ph_pc = "matched" /\ ph_match
    /\ ph_raw = <<"0","5","0","-","1","2","3","-","4","5","6","-","7">>
    /\ ph_other = <<"9","7","1","5","0","1","2","3","4","5","6","7">>
    /\ ph_key = <<"+","9","7","1","5","0","1","2","3","4","5","6","7">>

(***************************************************************************)
(* Name keys: normalize_name of populate_normalized_tables.py and of       *)
(* fix_populate_all_data.py, applied to names built from words, gaps and   *)
(* legal suffixes.                                                         *)
(***************************************************************************)
MaxGap == 3     \* spaces between two words of an input name

RECURSIVE Spaces(_)
Spaces(n) == IF n = 0 THEN <<>> ELSE <<" ">> \o Spaces(n - 1)

FirstWords  == { <<"A","L">>, <<"A","l">> }
SecondWords == { <<>>, <<"B","A","T">>, <<"C","O","L","T">> }
SuffixWords ==
    { <<>>, <<"l","t","d">> } \cup {LegalSuffixes[i] : i \in DOMAIN LegalSuffixes}
Pads == { <<>>, <<" ">> }

\* a word preceded by a gap, nothing for the empty word
Gapped(gap, word) == IF word = <<>> THEN <<>> ELSE Spaces(gap) \o word

NameInputs ==
    { <<>> } \cup
    { pad \o first \o Gapped(gap, second) \o Gapped(gap, suffix) \o pad :
        pad \in Pads, first \in FirstWords, second \in SecondWords,
        suffix \in SuffixWords, gap \in 1..MaxGap }

normalize_name_call ==
    /\ nm_pc = "start" /\ nm_script = "populate"
    /\ nm_key' = normalize_name(nm_raw)
    /\ nm_pc' = "done"
    /\ UNCHANGED <<nm_script, nm_raw, nonNameVars>>

normalize_name_fast_call ==
    /\ nm_pc = "start" /\ nm_script = "fast"
    /\ nm_key' = normalize_name_fast(nm_raw)
    /\ nm_pc' = "done"
    /\ UNCHANGED <<nm_script, nm_raw, nonNameVars>>

NameStart ==
    /\ nm_pc = "start"
    /\ nm_script \in {"populate", "fast"}
    /\ nm_raw \in NameInputs
    /\ nm_key = <<>>

InitName == NameStart /\ CoreIdle /\ PhoneIdle /\ PropIdle /\ StatsIdle /\ SvcIdle
NextName == normalize_name_call \/ normalize_name_fast_call
SpecName == InitName /\ [][NextName]_vars

\* the words of a string: its maximal runs of non-space characters
RECURSIVE Words(_, _)
Words(s, cur) ==
    IF s = <<>> THEN (IF cur = <<>> THEN <<>> ELSE <<cur>>)
    ELSE IF IsSpace(Head(s))
         THEN (IF cur = <<>> THEN <<>> ELSE <<cur>>) \o Words(Tail(s), <<>>)
         ELSE Words(Tail(s), Append(cur, Head(s)))

RECURSIVE JoinWords(_)
JoinWords(ws) ==
    IF ws = <<>> THEN <<>>
    ELSE IF Len(ws) = 1 THEN ws[1]
    ELSE ws[1] \o <<" ">> \o JoinWords(Tail(ws))

IsLegalSuffix(w) == \E i \in DOMAIN LegalSuffixes : LegalSuffixes[i] = w

\* the key the contract describes: uppercase, words joined by one space,
\* the legal-suffix words left out, every other character kept
ContractKey(name) ==
    JoinWords(SelectSeq(Words(UpperStr(name), <<>>), LAMBDA w : ~IsLegalSuffix(w)))

\* C16: normalize_name returns the name uppercased and trimmed, every run of
\* whitespace collapsed to one space, the legal-suffix tokens (LLC, L.L.C,
\* LIMITED, LTD, CO, COMPANY) stripped and every other character preserved.
C16_NameKeyContract ==
    nm_pc = "done" => nm_key = ContractKey(nm_raw)

(***************************************************************************)
(* Property rebuild: the INSERT ... SELECT of scripts/rebuild_properties.py *)
(* and extract_unique_properties of fix_populate_all_data.py, over a       *)
(* transactions table filled row by row.                                   *)
(***************************************************************************)
MaxTx == 2        \* rows in the transactions table

NULL   == "NULL"  \* SQL NULL / None in a text column
NoDate == 0       \* a NULL transaction_date; dates are day numbers from 1

Communities == {"c1", NULL}
Buildings   == {"b1", NULL}
Units       == {"u1", "u2", NULL}
Dates       == {NoDate, 1, 2}
Prices      == {100, 250}

\* owner_type values of properties_api.py / owners_api.py
INSTITUTIONAL_TYPES == {"developer", "bank", "lender", "government"}

\* the owners table: one individual with a phone, one developer without a
\* phone, one owner typed 'person' as ingest_dubai_real_estate.py inserts
\* them, one owner whose owner_type is NULL
OwnerTable ==
    { [id |-> 1, norm_phone |-> <<"5","5">>, norm_name |-> <<"A","L">>,
       owner_type |-> "individual", created_at |-> 1],
      [id |-> 2, norm_phone |-> <<>>, norm_name |-> <<"B","A","T">>,
       owner_type |-> "developer", created_at |-> 2],
      [id |-> 3, norm_phone |-> <<"7">>, norm_name |-> <<"D","A","L">>,
       owner_type |-> "person", created_at |-> 3],
      [id |-> 4, norm_phone |-> <<"8">>, norm_name |-> <<"M","A","L">>,
       owner_type |-> NULL, created_at |-> 4] }

\* the (buyer_name, buyer_phone) pairs the transactions carry
Buyers ==
    { [name |-> <<"A","l">>,         phone |-> <<"5","-","5">>],
      [name |-> <<" ","b","a","t">>, phone |-> <<>>],
      [name |-> <<"D","a","l">>,     phone |-> <<"7">>],
      [name |-> <<"m","a","l">>,     phone |-> <<"8">>],
      [name |-> <<"G","a","l">>,     phone |-> <<>>] }

TxRows == {transactions[i] : i \in 1..Len(transactions)}

\* a row is added to the transactions table
insert_transaction ==
    /\ pb_pc = "collect"
    /\ Len(transactions) < MaxTx
    /\ \E id \in (1..MaxTx) \ {t.id : t \in TxRows},
          c \in Communities, b \in Buildings, u \in Units,
          d \in Dates, pr \in Prices, by \in Buyers :
          transactions' = Append(transactions,
              [id |-> id, community |-> c, building |-> b, unit |-> u,
               transaction_date |-> d, price |-> pr,
               buyer_name |-> by.name, buyer_phone |-> by.phone])
    /\ UNCHANGED <<pb_pc, pb_builder, properties, unique_properties, nonPropVars>>

\* ORDER BY t.transaction_date DESC NULLS LAST, t.id DESC: a sorts before b
RankedBefore(a, b) ==
    IF a.transaction_date # b.transaction_date
    THEN \/ b.transaction_date = NoDate
         \/ a.transaction_date # NoDate /\ a.transaction_date > b.transaction_date
    ELSE a.id > b.id

\* WHERE t.unit IS NOT NULL AND t.building IS NOT NULL
Ranked == {t \in TxRows : t.unit # NULL /\ t.building # NULL}

\* PARTITION BY t.community, t.building, t.unit ... WHERE rn = 1
Latest ==
    {t \in Ranked :
        \A q \in Ranked :
            (q # t /\ q.community = t.community /\ q.building = t.building
                   /\ q.unit = t.unit) => RankedBefore(t, q)}

\* the LEFT JOIN's row of NULLs
NoOwner == [id |-> None, owner_type |-> NULL]

\* the WHERE clause of the LATERAL subquery: the rows of tbl matching the buyer
OwnerCandidates(tbl, l) ==
    {o \in tbl :
        \/ o.norm_phone # <<>> /\ o.norm_phone = DigitsOf(l.buyer_phone)
        \/ /\ o.norm_phone = <<>> /\ l.buyer_phone = <<>>
           /\ o.norm_name = UpperStr(Strip(l.buyer_name))}

\* the LATERAL subquery: owners matching the buyer, newest first, LIMIT 1
OwnerFor(l) ==
    LET cand == OwnerCandidates(OwnerTable, l)
    IN  IF cand = {} THEN NoOwner
        ELSE LET o == CHOOSE o \in cand : \A q \in cand : q.created_at <= o.created_at
             IN  [id |-> o.id, owner_type |-> o.owner_type]

\* COALESCE(o.owner_type, 'individual')
CoalescedType(o) == IF o.owner_type = NULL THEN "individual" ELSE o.owner_type

\* COALESCE(o.owner_type, 'individual') NOT IN ('individual', 'unknown')
Flagged(o) == CoalescedType(o) \notin {"individual", "unknown"}

\* the SELECT list; an absent meta key (stripped NULL) is the empty set
PropertyRow(l) ==
    LET o == OwnerFor(l)
    IN  [community |-> l.community, building |-> l.building, unit |-> l.unit,
         last_price |-> l.price, last_transaction_date |-> l.transaction_date,
         owner_id |-> IF o.id # None /\ ~Flagged(o) THEN o.id ELSE None,
         meta |-> [last_transaction_id |-> l.id,
                   buyer_name |-> l.buyer_name, buyer_phone |-> l.buyer_phone,
                   needs_owner_review |-> Flagged(o),
                   institutional_owner |->
                       IF Flagged(o)
                       THEN {[owner_id |-> o.id, owner_type |-> o.owner_type,
                              name |-> l.buyer_name, phone |-> l.buyer_phone]}
                       ELSE {}]]

\* rebuild_properties.main: stage, truncate, copy
rebuild_main ==
    /\ pb_pc = "collect"
    /\ properties' = {PropertyRow(l) : l \in Latest}
    /\ pb_pc' = "built" /\ pb_builder' = "rebuild"
    /\ UNCHANGED <<transactions, unique_properties, nonPropVars>>

\* the for-loop of extract_unique_properties over the first k transactions:
\* the property_dict built, or raised when a date was compared with None
RECURSIVE ExtractLoop(_)
ExtractLoop(k) ==
    IF k = 0 THEN [dict |-> [key \in {} |-> None], raised |-> FALSE]
    ELSE LET prev == ExtractLoop(k - 1)
             tx   == transactions[k]
             key  == <<tx.community, tx.building, tx.unit>>
             put  == [dict |-> (key :> tx) @@ prev.dict, raised |-> FALSE]
         IN  IF prev.raised THEN prev
             ELSE IF tx.community = NULL \/ tx.building = NULL \/ tx.unit = NULL
                  THEN prev
             ELSE IF key \notin DOMAIN prev.dict THEN put
             ELSE IF tx.transaction_date = NoDate THEN prev
             ELSE IF prev.dict[key].transaction_date = NoDate
                  THEN [dict |-> prev.dict, raised |-> TRUE]
             ELSE IF tx.transaction_date > prev.dict[key].transaction_date THEN put
             ELSE prev

extract_unique_properties ==
    /\ pb_pc = "collect"
    /\ LET res == ExtractLoop(Len(transactions))
       IN  IF res.raised
           THEN pb_pc' = "raised" /\ UNCHANGED unique_properties
           ELSE /\ pb_pc' = "built"
                /\ unique_properties' = {res.dict[key] : key \in DOMAIN res.dict}
    /\ pb_builder' = "extract"
    /\ UNCHANGED <<transactions, properties, nonPropVars>>

PropStart ==
    /\ transactions = <<>> /\ pb_pc = "collect" /\ pb_builder = "none"
    /\ properties = {} /\ unique_properties = {}

InitProp == PropStart /\ CoreIdle /\ PhoneIdle /\ NameIdle /\ StatsIdle /\ SvcIdle
NextProp == insert_transaction \/ rebuild_main \/ extract_unique_properties
SpecProp == InitProp /\ [][NextProp]_vars

\* what a builder emitted, in one shape
Emitted ==
    IF pb_builder = "rebuild"
    THEN {[building |-> p.building, unit |-> p.unit, price |-> p.last_price,
           date |-> p.last_transaction_date,
           buyer_name |-> p.meta.buyer_name, buyer_phone |-> p.meta.buyer_phone] :
          p \in properties}
    ELSE {[building |-> p.building, unit |-> p.unit, price |-> p.price,
           date |-> p.transaction_date,
           buyer_name |-> p.buyer_name, buyer_phone |-> p.buyer_phone] :
          p \in unique_properties}

\* the record that must win its (building, unit): greatest date, a NULL date
\* below every date, ties broken by the greatest id
Winner(b, u) ==
    CHOOSE t \in TxRows :
        /\ t.building = b /\ t.unit = u
        /\ \A q \in TxRows :
              (q.building = b /\ q.unit = u) =>
                  \/ q.transaction_date < t.transaction_date
                  \/ q.transaction_date = t.transaction_date /\ q.id <= t.id

\* C17: whatever the input order, the builder emits exactly one Property per
\* distinct (building, unit) among the records with both non-null, carrying
\* the price, date and buyer of the record with the greatest
\* transaction_date, ties broken by the greatest id, null dates never winning.
C17_LatestPerKey ==
    /\ pb_pc # "raised"
    /\ pb_pc = "built" =>
          LET keys == {<<t.building, t.unit>> :
                          t \in {r \in TxRows : r.building # NULL /\ r.unit # NULL}}
          IN  /\ \A p \in Emitted : <<p.building, p.unit>> \in keys
              /\ \A key \in keys :
                    LET w == Winner(key[1], key[2])
                    IN  {p \in Emitted : p.building = key[1] /\ p.unit = key[2]} =
                        {[building |-> w.building, unit |-> w.unit, price |-> w.price,
                          date |-> w.transaction_date,
                          buyer_name |-> w.buyer_name, buyer_phone |-> w.buyer_phone]}
              /\ (pb_builder = "rebuild" => Cardinality(properties) = Cardinality(keys))
              /\ (pb_builder = "extract" => Cardinality(unique_properties) = Cardinality(keys))

\* the owners whose key matches the latest buyer of an emitted property
MatchedOwners(p) ==
    {o \in OwnerTable :
        \/ o.norm_phone # <<>> /\ o.norm_phone = DigitsOf(p.meta.buyer_phone)
        \/ /\ o.norm_phone = <<>> /\ p.meta.buyer_phone = <<>>
           /\ o.norm_name = UpperStr(Strip(p.meta.buyer_name))}

\* C18: for every Property the rebuild emits, meta.needs_owner_review is true
\* exactly when the Owner matched for the latest buyer has an institutional
\* owner_type (developer, bank, lender, government); then owner_id is null
\* and meta.institutional_owner holds the raw buyer name and phone; otherwise
\* meta.institutional_owner is absent and owner_id is the matched Owner, or
\* null when no Owner matched.
C18_ReviewFlag ==
    (pb_pc = "built" /\ pb_builder = "rebuild") =>
        \A p \in properties :
            LET matched == MatchedOwners(p)
                inst    == \E o \in matched :
                              o.owner_type \in {"developer", "bank", "lender", "government"}
            IN  /\ p.meta.needs_owner_review <=> inst
                /\ inst =>
                      /\ p.owner_id = None
                      /\ \E io \in p.meta.institutional_owner :
                            io.name = p.meta.buyer_name /\ io.phone = p.meta.buyer_phone
                /\ ~inst =>
                      /\ p.meta.institutional_owner = {}
                      /\ IF matched = {} THEN p.owner_id = None
                         ELSE \E o \in matched : p.owner_id = o.id

(***************************************************************************)
(* AnalyticsEngine.market_stats over the records fetch_transactions        *)
(* returns.  Prices are multiples of the sizes, so price per square foot   *)
(* is a whole number; means are exact fractions, medians are kept doubled  *)
(* and quartiles in quarters, so no rounding is modelled.                  *)
(***************************************************************************)
MaxStatRecords == 3   \* records fetch_transactions returns

SizeFloor == 1076     \* df['size_sqft'] >= 1076
NaN == -1             \* float('nan'): the mean, median or quantile of no value

StatPrices == {0, 2152, 4304}
StatSizes  == {1075, 1076, 2152}
StatRecords == [price : StatPrices, size_sqft : StatSizes]

RECURSIVE Gcd(_, _)
Gcd(a, b) == IF b = 0 THEN a ELSE Gcd(b, a % b)

\* the exact value num / den
Ratio(num, den) == [num |-> num \div Gcd(num, den), den |-> den \div Gcd(num, den)]

RECURSIVE SumSeq(_)
SumSeq(xs) == IF xs = <<>> THEN 0 ELSE Head(xs) + SumSeq(Tail(xs))

RECURSIVE InsertSorted(_, _)
InsertSorted(x, xs) ==
    IF xs = <<>> THEN <<x>>
    ELSE IF x <= Head(xs) THEN <<x>> \o xs
    ELSE <<Head(xs)>> \o InsertSorted(x, Tail(xs))

RECURSIVE SortValues(_)
SortValues(xs) == IF xs = <<>> THEN <<>> ELSE InsertSorted(Head(xs), SortValues(Tail(xs)))

\* Series.mean()
Mean(xs) == IF xs = <<>> THEN [num |-> NaN, den |-> 1] ELSE Ratio(SumSeq(xs), Len(xs))

\* Series.quantile(k / 4), linear interpolation, times 4
Quantile4(xs, k) ==
    IF xs = <<>> THEN NaN
    ELSE LET sorted == SortValues(xs)
             h == (Len(xs) - 1) * k
             i == (h \div 4) + 1
             r == h % 4
         IN  IF r = 0 THEN 4 * sorted[i]
             ELSE (4 - r) * sorted[i] + r * sorted[i + 1]

\* Series.median(), times 2
Median2(xs) == IF xs = <<>> THEN NaN ELSE Quantile4(xs, 2) \div 2

\* if df.empty: return {"error": "No data found"}
EmptyFetch(df) == df = <<>>

\* df = df[df['price'] > 0]; df = df[df['size_sqft'] >= 1076];
\* df['psf'] = price / size_sqft; df = df[psf.notna() & (psf > 0)]
QualityGate(df) ==
    LET df1 == SelectSeq(df, LAMBDA r : r.price > 0)
        df2 == SelectSeq(df1, LAMBDA r : r.size_sqft >= SizeFloor)
    IN  SelectSeq(df2, LAMBDA r : r.price \div r.size_sqft > 0)

market_stats(df) ==
    LET kept   == QualityGate(df)
        prices == [i \in 1..Len(kept) |-> kept[i].price]
        psf    == [i \in 1..Len(kept) |-> kept[i].price \div kept[i].size_sqft]
    IN  IF EmptyFetch(df) THEN NoData
        ELSE [avg_price |-> Mean(prices),
              median_price |-> Median2(prices),
              avg_psf |-> Mean(psf),
              median_psf |-> Median2(psf),
              total_volume |-> SumSeq(prices),
              transaction_count |-> Len(kept),
              percentile_25 |-> Quantile4(prices, 1),
              percentile_75 |-> Quantile4(prices, 3)]

\* fetch_transactions returns one more record
fetch_record ==
    /\ ms_pc = "collect"
    /\ Len(ms_records) < MaxStatRecords
    /\ \E r \in StatRecords : ms_records' = Append(ms_records, r)
    /\ UNCHANGED <<ms_pc, ms_poison, ms_result, ms_result_p, nonStatsVars>>

market_stats_call ==
    /\ ms_pc = "collect"
    /\ ms_result' = market_stats(ms_records)
    /\ ms_pc' = "stats"
    /\ UNCHANGED <<ms_records, ms_poison, ms_result_p, nonStatsVars>>

\* the same call with one poisoned record among those fetched
market_stats_poisoned_call ==
    /\ ms_pc = "stats"
    /\ \E p \in {r \in StatRecords : r.price <= 0 \/ r.size_sqft < SizeFloor} :
          /\ ms_poison' = <<p>>
          /\ ms_result_p' = market_stats(Append(ms_records, p))
    /\ ms_pc' = "compared"
    /\ UNCHANGED <<ms_records, ms_result, nonStatsVars>>

StatsStart ==
    /\ ms_pc = "collect" /\ ms_records = <<>> /\ ms_poison = <<>>
    /\ ms_result = NoData /\ ms_result_p = NoData

InitStats == StatsStart /\ CoreIdle /\ PhoneIdle /\ NameIdle /\ PropIdle /\ SvcIdle
NextStats == fetch_record \/ market_stats_call \/ market_stats_poisoned_call
SpecStats == InitStats /\ [][NextStats]_vars

\* the fetched records that pass the data-quality gate
PassingRecords ==
    SelectSeq(ms_records, LAMBDA r : r.price > 0 /\ r.size_sqft >= 1076)

\* C19: market_stats returns the no-data sentinel whenever the record set is
\* empty after filtering, whether the fetch returned nothing or the quality
\* gate removed every record; it never returns statistics over zero records.
C19_NoDataSentinel ==
    ms_pc \in {"stats", "compared"} =>
        /\ PassingRecords = <<>> => ms_result = NoData
        /\ ms_result # NoData => ms_result.transaction_count > 0

\* C20: for every record set R, the empty one included, and every poisoned
\* record p (price <= 0 or size_sqft below 1076), market_stats over R plus p
\* returns the same result as market_stats over R.
C20_PoisonIgnored ==
    ms_pc = "compared" => ms_result_p = ms_result

(***************************************************************************)
(* AnalyticsEngine.find_comparables and estimate_value, and the 'comps'    *)
(* operation of run_compute.  fetch_transactions has already applied the   *)
(* community and recency filters and returns the records newest first, so  *)
(* the sort by transaction_date keeps their order.  The regression is      *)
(* computed in exact fractions.                                            *)
(***************************************************************************)
MaxComps == 3          \* records fetch_transactions returns

MinComps == 3          \* len(comps) < 3, len(df) < 3
HeadLimit == 20        \* df.head(20)
WindowTenths == 3      \* size_diff < 0.3

BuildingBat == <<"B","a","t">>
BuildingDal == <<"D","a","l">>
CompSizes == {600, 1000, 1200}
CompPrices == {NaN, 0, 2, 5}
CompRecords == [size_sqft : CompSizes, price : CompPrices,
                building : {BuildingBat, BuildingDal}]
SizeArgs == {0, 1000}
BuildingArgs == {<<>>, <<"b","a">>}

NoEstimate == [num |-> 0, den |-> 1]
ListResult(xs) == [keys |-> {}, data |-> xs, estimated_price |-> NoEstimate]
ErrorResult(msg) == [keys |-> {"error"}, data |-> <<>>, estimated_price |-> NoEstimate,
                     error |-> msg]

\* abs(df['size_sqft'] - size_sqft) / size_sqft < 0.3
InSizeWindow(r, size_sqft) ==
    LET diff == IF r.size_sqft >= size_sqft THEN r.size_sqft - size_sqft
                ELSE size_sqft - r.size_sqft
    IN  10 * diff < WindowTenths * size_sqft

\* df['building'].str.contains(building, case=False, na=False)
InBuilding(r, building) == Contains(UpperStr(r.building), UpperStr(building))

find_comparables(df, building, size_sqft) ==
    IF df = <<>> THEN <<>>
    ELSE LET sized == IF size_sqft # 0
                      THEN SelectSeq(df, LAMBDA r : InSizeWindow(r, size_sqft))
                      ELSE df
             built == IF building # <<>>
                      THEN SelectSeq(sized, LAMBDA r : InBuilding(r, building))
                      ELSE sized
         IN  SubSeq(built, 1, Min(Len(built), HeadLimit))

\* Series.sum() of a column computed from each record
SumOver(xs, F(_)) == SumSeq([i \in 1..Len(xs) |-> F(xs[i])])

\* n * Sxx - Sx^2: zero exactly when all x values are identical
SizeSpread(df) ==
    LET n == Len(df)
        sx == SumOver(df, LAMBDA r : r.size_sqft)
    IN  n * SumOver(df, LAMBDA r : r.size_sqft * r.size_sqft) - sx * sx

\* slope * size_sqft + intercept of stats.linregress(df['size_sqft'], df['price'])
RegressionAt(df, size_sqft) ==
    LET n == Len(df)
        sx == SumOver(df, LAMBDA r : r.size_sqft)
        sy == SumOver(df, LAMBDA r : r.price)
        sxy == SumOver(df, LAMBDA r : r.size_sqft * r.price)
        d == SizeSpread(df)
    IN  Ratio((n * sxy - sx * sy) * (n * size_sqft - sx) + sy * d, n * d)

\* estimate_value returns a result, or raises where linregress raises
EstimateRaises(df, building, size_sqft) ==
    LET comps == find_comparables(df, building, size_sqft)
        valid == SelectSeq(comps, LAMBDA r : r.price # NaN)
    IN  Len(comps) >= MinComps /\ Len(valid) >= MinComps /\ SizeSpread(valid) = 0

estimate_value(df, building, size_sqft) ==
    LET comps == find_comparables(df, building, size_sqft)
        valid == SelectSeq(comps, LAMBDA r : r.price # NaN)
    IN  IF Len(comps) < MinComps THEN ErrorResult("Insufficient comparable sales")
        ELSE IF Len(valid) < MinComps THEN ErrorResult("Insufficient valid comparables")
        ELSE [keys |-> {"estimated_price", "confidence", "comparable_count",
                        "avg_psf", "price_range"},
              data |-> valid,
              estimated_price |-> RegressionAt(valid, size_sqft),
              comparable_count |-> Len(comps),
              avg_psf |-> Ratio(SumOver(valid, LAMBDA r : r.price),
                                SumOver(valid, LAMBDA r : r.size_sqft))]

\* run_compute(op = "comps")
run_compute_comps(df, building, size_sqft) ==
    [keys |-> {"success", "data"}, data |-> find_comparables(df, building, size_sqft),
     estimated_price |-> NoEstimate, success |-> TRUE]

\* fetch_transactions returns one more record
fetch_comp ==
    /\ cp_pc = "collect"
    /\ Len(cp_records) < MaxComps
    /\ \E r \in CompRecords : cp_records' = Append(cp_records, r)
    /\ UNCHANGED <<cp_pc, cp_entry, cp_size, cp_building, cp_result, nonCompsVars>>

find_comparables_call ==
    /\ cp_pc = "collect"
    /\ \E b \in BuildingArgs, s \in SizeArgs :
          /\ cp_building' = b /\ cp_size' = s
          /\ cp_result' = ListResult(find_comparables(cp_records, b, s))
    /\ cp_entry' = "find_comparables" /\ cp_pc' = "done"
    /\ UNCHANGED <<cp_records, nonCompsVars>>

estimate_value_call ==
    /\ cp_pc = "collect"
    /\ \E b \in BuildingArgs, s \in SizeArgs :
          /\ cp_building' = b /\ cp_size' = s
          /\ ~EstimateRaises(cp_records, b, s)
          /\ cp_result' = estimate_value(cp_records, b, s)
    /\ cp_entry' = "estimate_value" /\ cp_pc' = "done"
    /\ UNCHANGED <<cp_records, nonCompsVars>>

\* linregress raises ValueError: all x values are identical
estimate_value_raises ==
    /\ cp_pc = "collect"
    /\ \E b \in BuildingArgs, s \in SizeArgs :
          /\ cp_building' = b /\ cp_size' = s
          /\ EstimateRaises(cp_records, b, s)
    /\ cp_entry' = "estimate_value" /\ cp_pc' = "raised"
    /\ UNCHANGED <<cp_records, cp_result, nonCompsVars>>

run_compute_comps_call ==
    /\ cp_pc = "collect"
    /\ \E b \in BuildingArgs, s \in SizeArgs :
          /\ cp_building' = b /\ cp_size' = s
          /\ cp_result' = run_compute_comps(cp_records, b, s)
    /\ cp_entry' = "comps" /\ cp_pc' = "done"
    /\ UNCHANGED <<cp_records, nonCompsVars>>

CompsStart == CompsIdle

InitComps == CompsStart /\ CoreIdle /\ ToolsIdle /\ OtherCompsIdle
NextComps == \/ fetch_comp \/ find_comparables_call \/ estimate_value_call
             \/ estimate_value_raises \/ run_compute_comps_call
SpecComps == InitComps /\ [][NextComps]_vars

\* the records that survive the size-window and building filters
Survivors == find_comparables(cp_records, cp_building, cp_size)

\* C21: whenever fewer than 3 records survive the filters, every entry
\* point that serves comparables (find_comparables, estimate_value, the
\* 'comps' compute op) returns a result with error set and without an
\* estimated_price key.
C21_TooFewComparables ==
    (cp_pc = "done" /\ Len(Survivors) < 3) =>
        ("error" \in cp_result.keys /\ "estimated_price" \notin cp_result.keys)

\* C22: provided every fetch succeeds, no AnalyticsEngine operation raises,
\* for any fetched record set and any parameters: where the data cannot
\* support the computation (too few or degenerate comparables for the
\* regression) the operation returns a structured result carrying error.
C22_NeverRaises ==
    /\ cp_pc # "raised"
    /\ (cp_pc = "done" /\ cp_entry = "estimate_value"
          /\ "estimated_price" \notin cp_result.keys) => "error" \in cp_result.keys

\* C26: every operation applies the same data-quality gate before computing:
\* a record with price <= 0 or with size_sqft below the floor of 1076
\* contributes to no comparable set and to no regression of
\* find_comparables / estimate_value.
C26_GateEverywhere ==
    cp_pc = "done" =>
        \A i \in 1..Len(cp_result.data) :
            LET r == cp_result.data[i]
            IN  (r.price = NaN \/ r.price > 0) /\ r.size_sqft >= 1076

(***************************************************************************)
(* AnalyticsEngine.community_correlation.  The correlation matrix is       *)
(* modelled by the communities it covers (the columns of the pivot) and    *)
(* the number of months it is computed over.                               *)
(***************************************************************************)
MinCommunities == 2   \* len(all_data) < 2
MinMonths == 3        \* overlapping_months < 3

CorrCommunities == {"c1", "c2"}
CorrMonths == 1..3
CorrQuality == {[price |-> 2152, size_sqft |-> 1076],    \* passes the gate
                [price |-> 0,    size_sqft |-> 1076],    \* price <= 0
                [price |-> 2152, size_sqft |-> 1075]}    \* below the floor
CorrSales == {[community |-> c, month |-> m, price |-> q.price, size_sqft |-> q.size_sqft] :
                 c \in CorrCommunities, m \in CorrMonths, q \in CorrQuality}
CorrRequests == {<<c>> : c \in CorrCommunities}
                   \cup {<<c, d>> : c \in CorrCommunities, d \in CorrCommunities}

\* fetch_transactions({"community": ilike %community%})
FetchCommunity(sales, community) == {r \in sales : r.community = community}

\* the months of the monthly psf series of one community, after the gate
MonthlyOf(sales, community) ==
    {r.month : r \in {x \in FetchCommunity(sales, community) :
                         /\ x.price > 0 /\ x.size_sqft >= 1076
                         /\ Ratio(x.price, x.size_sqft).num > 0}}

\* all_data: one monthly frame per requested community whose fetch is not empty
AllData(sales, communities) ==
    LET F[i \in 0..Len(communities)] ==
            IF i = 0 THEN <<>>
            ELSE IF FetchCommunity(sales, communities[i]) # {}
                 THEN Append(F[i-1], [community |-> communities[i],
                                      months |-> MonthlyOf(sales, communities[i])])
                 ELSE F[i-1]
    IN  F[Len(communities)]

\* combined.pivot(index='month', columns='community'): the columns
PivotColumns(all) == {all[i].community : i \in {j \in 1..Len(all) : all[j].months # {}}}

\* pivot raises ValueError: Index contains duplicate entries
PivotRaises(all) ==
    \E i, j \in 1..Len(all) :
        i < j /\ all[i].community = all[j].community /\ all[i].months # {}

\* pivot.dropna(): the months with a value in every column
PivotClean(all) ==
    {m \in UNION {all[i].months : i \in 1..Len(all)} :
        \A i \in 1..Len(all) : all[i].months # {} => m \in all[i].months}

CorrError == [keys |-> {"error"}, columns |-> {}, overlapping_months |-> 0]

CorrelationRaises(sales, communities) ==
    LET all == AllData(sales, communities)
    IN  Len(all) >= MinCommunities /\ PivotRaises(all)

community_correlation(sales, communities) ==
    LET all == AllData(sales, communities)
        overlapping_months == Cardinality(PivotClean(all))
    IN  IF Len(all) < MinCommunities THEN CorrError
        ELSE IF overlapping_months < MinMonths THEN CorrError
        ELSE [keys |-> {"correlation_matrix", "strongest_correlations",
                        "overlapping_months"},
              columns |-> PivotColumns(all),
              overlapping_months |-> overlapping_months]

\* one more sale is in the transactions table
record_sale ==
    /\ cr_pc = "collect"
    /\ \E r \in CorrSales :
          /\ \A x \in cr_sales : ~(x.community = r.community /\ x.month = r.month)
          /\ cr_sales' = cr_sales \cup {r}
    /\ UNCHANGED <<cr_pc, cr_request, cr_result, nonCorrVars>>

community_correlation_call ==
    /\ cr_pc = "collect"
    /\ \E cs \in CorrRequests :
          /\ cr_request' = cs
          /\ ~CorrelationRaises(cr_sales, cs)
          /\ cr_result' = community_correlation(cr_sales, cs)
    /\ cr_pc' = "done"
    /\ UNCHANGED <<cr_sales, nonCorrVars>>

community_correlation_raises ==
    /\ cr_pc = "collect"
    /\ \E cs \in CorrRequests :
          /\ cr_request' = cs
          /\ CorrelationRaises(cr_sales, cs)
    /\ cr_pc' = "raised"
    /\ UNCHANGED <<cr_sales, cr_result, nonCorrVars>>

CorrStart == CorrIdle

InitCorr == CorrStart /\ CoreIdle /\ ToolsIdle /\ OtherCorrIdle
NextCorr == record_sale \/ community_correlation_call \/ community_correlation_raises
SpecCorr == InitCorr /\ [][NextCorr]_vars

\* the requested communities with at least one sale that passes the gate
Contributing ==
    {c \in {cr_request[i] : i \in 1..Len(cr_request)} :
        \E r \in cr_sales : r.community = c /\ r.price > 0 /\ r.size_sqft >= 1076}

\* the months with a passing sale of every contributing community
SharedMonths ==
    {m \in CorrMonths :
        \A c \in Contributing :
            \E r \in cr_sales : /\ r.community = c /\ r.month = m
                                /\ r.price > 0 /\ r.size_sqft >= 1076}

\* C23: community_correlation returns an explicit error unless at least 2
\* distinct communities contribute a record that passes the gate and at
\* least 3 months have a value for every one of them; a returned correlation
\* matrix covers at least 2 communities over at least 3 overlapping months.
C23_CorrelationContract ==
    cr_pc = "done" =>
        /\ ~(Cardinality(Contributing) >= 2 /\ Cardinality(SharedMonths) >= 3)
              => "error" \in cr_result.keys
        /\ "correlation_matrix" \in cr_result.keys
              => /\ Cardinality(cr_result.columns) >= 2
                 /\ cr_result.overlapping_months >= 3

(***************************************************************************)
(* Owner lookup: the /tools/owner_portfolio handler get_owner_portfolio    *)
(* and AnalyticsEngine.owner_portfolio.  An outcome is a response          *)
(* (status 200, or a returned dict), an HTTP error or a raised exception.  *)
(***************************************************************************)
PortfolioPhone == <<"0","5","0","1","2","3","4","5","6">> \o <<"7">>   \* "0501234567"
PortfolioKey == normalize_phone(PortfolioPhone)

PortfolioOwners ==
    { [id |-> 1, norm_phone |-> PortfolioKey, raw_phone |-> PortfolioPhone,
       norm_name |-> <<"A","L">>, cluster_id |-> 1],
      [id |-> 2, norm_phone |-> PortfolioKey, raw_phone |-> PortfolioKey,
       norm_name |-> <<"A","L","T">>, cluster_id |-> 1],
      [id |-> 3, norm_phone |-> <<>>, raw_phone |-> <<"N","U","L","L">>,
       norm_name |-> <<"B","A","T">>, cluster_id |-> None] }

\* the properties table
PortfolioProperties ==
    { [owner_id |-> 1, last_price |-> 100], [owner_id |-> 2, last_price |-> 250],
      [owner_id |-> 3, last_price |-> 100] }

PortfolioPhoneArgs == {<<>>, PortfolioPhone, PortfolioKey}
PortfolioNameArgs == {<<>>, <<"a","l">>, <<"m","a">>}

Outcome(kind, status, message, owner_id, property_count) ==
    [kind |-> kind, status |-> status, message |-> message, owner_id |-> owner_id,
     property_count |-> property_count]

\* except Exception as e: raise HTTPException(status_code=500, ...)
PortfolioFailed == Outcome("http_error", 500, "Portfolio lookup failed", None, 0)

\* select("owners", filters = norm_phone / norm_name ilike): the matching rows
SelectOwners(tbl, phone, name) ==
    IF phone # <<>> THEN {o \in tbl : o.norm_phone = phone}
    ELSE {o \in tbl : Contains(LowerStr(o.norm_name), LowerStr(name))}

\* get_owner_portfolio: the outcomes and the fetches of one request, given
\* whether each select succeeds
get_owner_portfolio(tbl, phone, name, owners_ok, properties_ok) ==
    IF phone = <<>> /\ name = <<>>
    THEN {[fetches |-> <<>>, outcome |-> PortfolioFailed]}
    ELSE IF ~owners_ok
    THEN {[fetches |-> <<"owners">>, outcome |-> PortfolioFailed]}
    ELSE IF SelectOwners(tbl, phone, name) = {}
    THEN {[fetches |-> <<"owners">>,
           outcome |-> Outcome("response", 200, "Owner not found", None, 0)]}
    ELSE IF ~properties_ok
    THEN {[fetches |-> <<"owners", "properties">>, outcome |-> PortfolioFailed]}
    ELSE {[fetches |-> <<"owners", "properties">>,
           outcome |-> Outcome("response", 200, "found", o.id,
                          Cardinality({p \in PortfolioProperties : p.owner_id = o.id}))] :
             o \in SelectOwners(tbl, phone, name)}

\* AnalyticsEngine.owner_portfolio
owner_portfolio(tbl, owner_phone, properties_ok, owners_ok) ==
    IF ~properties_ok
    THEN {[fetches |-> <<"properties">>,
           outcome |-> Outcome("raised", 0, "transport", None, 0)]}
    ELSE IF ~owners_ok
    THEN {[fetches |-> <<"properties", "owners">>,
           outcome |-> Outcome("raised", 0, "transport", None, 0)]}
    ELSE IF tbl = {}
    THEN {[fetches |-> <<"properties", "owners">>,
           outcome |-> Outcome("raised", 0, "KeyError", None, 0)]}
    ELSE LET by_key == {o \in tbl : o.norm_phone = normalize_phone(owner_phone)}
             owner == IF by_key # {} THEN by_key
                      ELSE {o \in tbl : o.raw_phone = owner_phone}
         IN  IF owner = {}
             THEN {[fetches |-> <<"properties", "owners">>,
                    outcome |-> Outcome("response", 0, "Owner not found", None, 0)]}
             ELSE {[fetches |-> <<"properties", "owners">>,
                    outcome |-> Outcome("response", 0, "found", o.id,
                       Cardinality({p \in PortfolioProperties :
                          IF o.cluster_id # None
                          THEN \E x \in tbl : x.cluster_id = o.cluster_id
                                                    /\ x.id = p.owner_id
                          ELSE p.owner_id = o.id}))] :
                      o \in owner}

\* a row is in the owners table
record_owner ==
    /\ lk_pc = "collect"
    /\ \E o \in PortfolioOwners \ lk_owners : lk_owners' = lk_owners \cup {o}
    /\ UNCHANGED <<lk_pc, lk_entry, lk_phone, lk_name, lk_fetches, lk_outcome,
                   nonLookupVars>>

get_owner_portfolio_call ==
    /\ lk_pc = "collect"
    /\ \E phone \in PortfolioPhoneArgs, name \in PortfolioNameArgs,
          owners_ok \in BOOLEAN, properties_ok \in BOOLEAN :
          \E r \in get_owner_portfolio(lk_owners, phone, name, owners_ok, properties_ok) :
             /\ lk_phone' = phone /\ lk_name' = name
             /\ lk_fetches' = r.fetches /\ lk_outcome' = r.outcome
    /\ lk_entry' = "api" /\ lk_pc' = "done"
    /\ UNCHANGED <<lk_owners, nonLookupVars>>

owner_portfolio_call ==
    /\ lk_pc = "collect"
    /\ \E phone \in PortfolioPhoneArgs, owners_ok \in BOOLEAN, properties_ok \in BOOLEAN :
          \E r \in owner_portfolio(lk_owners, phone, properties_ok, owners_ok) :
             /\ lk_phone' = phone /\ lk_name' = <<>>
             /\ lk_fetches' = r.fetches /\ lk_outcome' = r.outcome
    /\ lk_entry' = "engine" /\ lk_pc' = "done"
    /\ UNCHANGED <<lk_owners, nonLookupVars>>

LookupStart == LookupIdle

InitLookup == LookupStart /\ CoreIdle /\ ToolsIdle /\ OtherLookupIdle
NextLookup == record_owner \/ get_owner_portfolio_call \/ owner_portfolio_call
SpecLookup == InitLookup /\ [][NextLookup]_vars

\* C24: an owner lookup given neither a phone nor a name is rejected before
\* any owner or property fetch is issued, with a validation (4xx) error that
\* differs from the 'owner not found' sentinel and from the server or
\* transport failure outcome.
C24_ValidationFirst ==
    (lk_pc = "done" /\ lk_phone = <<>> /\ lk_name = <<>>) =>
        /\ lk_fetches = <<>>
        /\ lk_outcome.kind = "http_error"
        /\ lk_outcome.status \in 400..499
        /\ lk_outcome # PortfolioFailed

(***************************************************************************)
(* AnalyticsEngine.market_activity_score.  Prices are in units of ten      *)
(* million, so that total_volume / 1e9 * 100 is the sum of the prices;     *)
(* dates are month numbers, the months from RecentFrom on lying within the *)
(* last 90 days.  Scores are exact fractions.                              *)
(***************************************************************************)
MaxScoreRecords == 3   \* records fetch_transactions returns

RecentFrom == 3        \* transaction_date >= now - 90 days
MonthsPerWindow == 3   \* len(recent_90d) / 3
VelocityCap == 10      \* velocity / 10 * 100
ScoreCap == 100        \* min(..., 100)
TrendBase == 50        \* 50 + trend
WeightVelocity == 4    \* velocity_score * 0.4
WeightVolume == 3      \* volume_score * 0.3
WeightTrend == 3       \* trend_score * 0.3

ScorePrices == {-5, 3, 60}
ScoreDates == 1..3
ScoreRecords == [price : ScorePrices, transaction_date : ScoreDates]

\* a / b for b > 0, in lowest terms
Frac(a, b) == IF a = 0 THEN [num |-> 0, den |-> 1]
              ELSE LET g == Gcd(IF a < 0 THEN -a ELSE a, b)
                   IN  [num |-> a \div g, den |-> b \div g]
FracLeq(x, y) == x.num * y.den <= y.num * x.den
FracMin(x, y) == IF FracLeq(x, y) THEN x ELSE y
FracMax(x, y) == IF FracLeq(x, y) THEN y ELSE x
FracAdd(x, y) == Frac(x.num * y.den + y.num * x.den, x.den * y.den)
FracTimes(k, x) == Frac(k * x.num, x.den)
Whole(n) == [num |-> n, den |-> 1]

\* min(velocity / 10 * 100, 100) with velocity = len(recent_90d) / 3
VelocityScore(df) ==
    LET recent_90d == SelectSeq(df, LAMBDA r : r.transaction_date >= RecentFrom)
    IN  FracMin(Frac(Len(recent_90d) * ScoreCap, MonthsPerWindow * VelocityCap),
                Whole(ScoreCap))

\* min((total_volume / 1e9) * 100, 100)
VolumeScore(df) ==
    FracMin(Whole(SumOver(df, LAMBDA r : r.price)), Whole(ScoreCap))

\* df.groupby('month')['price'].count(): the months present, ascending
MonthsOf(df) == {df[i].transaction_date : i \in 1..Len(df)}
CountIn(df, m) == Len(SelectSeq(df, LAMBDA r : r.transaction_date = m))

\* max(0, min(50 + (monthly.iloc[-1] / monthly.mean() - 1) * 100, 100)), or 50
TrendScore(df) ==
    LET months == MonthsOf(df)
        last == CHOOSE m \in months : \A x \in months : x <= m
        k == Cardinality(months)
    IN  IF k > 1
        THEN FracMax(Whole(0),
                     FracMin(Frac(ScoreCap * CountIn(df, last) * k
                                    - (ScoreCap - TrendBase) * Len(df), Len(df)),
                             Whole(ScoreCap)))
        ELSE Whole(TrendBase)

market_activity_score(df) ==
    IF df = <<>> THEN [score |-> Whole(0), factors |-> {}]
    ELSE LET v == VelocityScore(df)
             vol == VolumeScore(df)
             t == TrendScore(df)
             weighted == FracAdd(FracTimes(WeightVelocity, v),
                            FracAdd(FracTimes(WeightVolume, vol), FracTimes(WeightTrend, t)))
         IN  [score |-> Frac(weighted.num, weighted.den * 10),
              factors |-> {"velocity_score", "volume_score", "trend_score",
                           "velocity_per_month", "total_volume"},
              velocity_score |-> v, volume_score |-> vol, trend_score |-> t]

\* fetch_transactions returns one more record
fetch_score_record ==
    /\ sc_pc = "collect"
    /\ Len(sc_records) < MaxScoreRecords
    /\ \E r \in ScoreRecords : sc_records' = Append(sc_records, r)
    /\ UNCHANGED <<sc_pc, sc_result, nonScoreVars>>

market_activity_score_call ==
    /\ sc_pc = "collect"
    /\ sc_result' = market_activity_score(sc_records)
    /\ sc_pc' = "done"
    /\ UNCHANGED <<sc_records, nonScoreVars>>

ScoreStart == ScoreIdle

InitScore == ScoreStart /\ CoreIdle /\ ToolsIdle /\ OtherScoreIdle
NextScore == fetch_score_record \/ market_activity_score_call
SpecScore == InitScore /\ [][NextScore]_vars

InRange(x) == FracLeq(Whole(0), x) /\ FracLeq(x, Whole(100))

\* C25: for every fetched record set, market_activity_score returns
\* score = 0.4 * velocity_score + 0.3 * volume_score + 0.3 * trend_score
\* with each component score inside [0, 100], hence a score inside [0, 100].
C25_ScoreInRange ==
    sc_pc = "done" =>
        /\ InRange(sc_result.score)
        /\ sc_result.factors # {} =>
              /\ InRange(sc_result.velocity_score)
              /\ InRange(sc_result.volume_score)
              /\ InRange(sc_result.trend_score)
              /\ 10 * sc_result.score.num * sc_result.velocity_score.den
                    * sc_result.volume_score.den * sc_result.trend_score.den
                 = sc_result.score.den
                    * ( 4 * sc_result.velocity_score.num
                            * sc_result.volume_score.den * sc_result.trend_score.den
                      + 3 * sc_result.volume_score.num
                            * sc_result.velocity_score.den * sc_result.trend_score.den
                      + 3 * sc_result.trend_score.num
                            * sc_result.velocity_score.den * sc_result.volume_score.den )

(***************************************************************************)
(* ingest_dubai_real_estate.py: the loop of ingest_file calling            *)
(* ensure_owner_contacts for each record.  A record carries the phones     *)
(* normalize_phone kept, in column order, or the one-element list of the   *)
(* records that have a single Mobile column, whose element may be None.    *)
(***************************************************************************)
MaxIngest == 3         \* records of one ingest run

ContactOwners == 1..2
NoContact == ""        \* normalize_phone returned None
ContactPhones == {"5", "7", "8"}
ContactLists ==
    {<<>>, <<NoContact>>} \cup {<<p>> : p \in ContactPhones}
       \cup {<<p, q>> : p \in ContactPhones, q \in ContactPhones}

\* the loop of ensure_owner_contacts over phones[idx..]: the cache and the
\* values to insert after it
RECURSIVE ContactLoop(_, _, _, _, _)
ContactLoop(owner_id, phones, idx, cache, values) ==
    IF idx > Len(phones) THEN [cache |-> cache, values |-> values]
    ELSE LET phone == phones[idx]
         IN  IF phone = NoContact \/ <<owner_id, phone>> \in cache
             THEN ContactLoop(owner_id, phones, idx + 1, cache, values)
             ELSE ContactLoop(owner_id, phones, idx + 1,
                              cache \cup {<<owner_id, phone>>},
                              Append(values, [owner_id |-> owner_id,
                                              contact_type |-> "mobile",
                                              value |-> phone,
                                              is_primary |-> (idx = 1)]))

\* INSERT ... ON CONFLICT (owner_id, contact_type, value) DO NOTHING
InsertContacts(table, values) ==
    LET F[i \in 0..Len(values)] ==
            IF i = 0 THEN table
            ELSE IF \E r \in F[i-1] : /\ r.owner_id = values[i].owner_id
                                      /\ r.contact_type = values[i].contact_type
                                      /\ r.value = values[i].value
                 THEN F[i-1]
                 ELSE F[i-1] \cup {values[i]}
    IN  F[Len(values)]

\* the first phone of a list, "" if it has none
FirstPhone(phones) ==
    LET present == SelectSeq(phones, LAMBDA p : p # NoContact)
    IN  IF present = <<>> THEN NoContact ELSE Head(present)

\* one iteration of the loop of ingest_file
ensure_owner_contacts ==
    /\ ct_ingested < MaxIngest
    /\ \E owner_id \in ContactOwners, phones \in ContactLists :
          LET done == ContactLoop(owner_id, phones, 1, contact_cache, <<>>)
          IN  /\ contact_cache' = done.cache
              /\ owner_contacts' = InsertContacts(owner_contacts, done.values)
              /\ ct_first' = IF ct_first[owner_id] = NoContact
                             THEN [ct_first EXCEPT ![owner_id] = FirstPhone(phones)]
                             ELSE ct_first
    /\ ct_ingested' = ct_ingested + 1
    /\ UNCHANGED nonContactsVars

ContactsStart == ContactsIdle

InitContacts == ContactsStart /\ CoreIdle /\ ToolsIdle /\ OtherContactsIdle
NextContacts == ensure_owner_contacts
SpecContacts == InitContacts /\ [][NextContacts]_vars

ContactsOf(o) == {r \in owner_contacts : r.owner_id = o}

\* C27: after ingesting any sequence of records, the contacts of an owner
\* contain each distinct phone once and exactly one of them is marked
\* primary, the first phone seen for that owner; a phone first seen in a
\* later record of the same owner is stored as non-primary.
C27_OnePrimary ==
    \A o \in ContactOwners :
        /\ \A r, x \in ContactsOf(o) : r.value = x.value => r = x
        /\ ContactsOf(o) # {} =>
              \A r \in ContactsOf(o) : r.is_primary <=> r.value = ct_first[o]

(***************************************************************************)
(* Longer resolution runs of cluster_owners and cluster_owners_fast over   *)
(* two names that are not similar (NameB, NameD: ratio 85.7), each with    *)
(* and without the phone "5".                                              *)
(***************************************************************************)
MaxRunOwners == 4      \* identities per long resolution run

RunIdentities == [raw_name : {NameB, NameD}, raw_phone : {<<>>, <<"5">>}]

cluster_owners_long ==
    /\ engine = "fuzzy"
    /\ Len(owners) < MaxRunOwners
    /\ \E idn \in RunIdentities, u \in UUIDs \cup {None} :
          ClusterStep("fuzzy", idn, u, owners, clusters, phone_to_cluster, name_to_cluster,
                      owners', clusters', phone_to_cluster', name_to_cluster')
    /\ UNCHANGED <<engine, rerunVars, nonClusterVars>>

cluster_owners_fast_long ==
    /\ engine = "fast"
    /\ Len(owners) < MaxRunOwners
    /\ \E idn \in RunIdentities, u \in UUIDs \cup {None} :
          ClusterStep("fast", idn, u, owners, clusters, phone_to_cluster, name_to_cluster,
                      owners', clusters', phone_to_cluster', name_to_cluster')
    /\ UNCHANGED <<engine, rerunVars, nonClusterVars>>

InitLongRun == InitCluster
NextLongRun == cluster_owners_long \/ cluster_owners_fast_long
SpecLongRun == InitLongRun /\ [][NextLongRun]_vars

\* C29: in any resolution run, two identities that both have an empty phone
\* and identical non-empty normalized names are assigned the same
\* cluster_id, whatever identities were processed between them.
C29_SameNameSameCluster ==
    \A i, j \in 1..Len(owners) :
        ( /\ owners[i].norm_phone = <<>> /\ owners[j].norm_phone = <<>>
          /\ owners[i].norm_name # <<>>
          /\ owners[i].norm_name = owners[j].norm_name )
            => owners[i].cluster_id = owners[j].cluster_id

(***************************************************************************)
(* The two stages together: a resolution run stores the owners, then the   *)
(* rebuild of rebuild_properties.py looks up the owner of a latest         *)
(* transaction that carries the raw name and phone of one of them.  The    *)
(* rows of one upload share their created_at, so LIMIT 1 may return any    *)
(* matching row.                                                           *)
(***************************************************************************)
MaxLinkOwners == 2     \* identities of the resolution run

\* the owners table after the upload: the id of a row is its position
LinkTable ==
    {[id |-> i, norm_phone |-> owners[i].norm_phone, norm_name |-> owners[i].norm_name,
      cluster_id |-> owners[i].cluster_id] : i \in 1..Len(owners)}

link_cluster_owners ==
    /\ ln_pc = "collect"
    /\ engine = "fuzzy"
    /\ Len(owners) < MaxLinkOwners
    /\ \E idn \in Identities, u \in UUIDs \cup {None} :
          ClusterStep("fuzzy", idn, u, owners, clusters, phone_to_cluster, name_to_cluster,
                      owners', clusters', phone_to_cluster', name_to_cluster')
    /\ UNCHANGED <<engine, rerunVars, nonClusterVars>>

link_cluster_owners_fast ==
    /\ ln_pc = "collect"
    /\ engine = "fast"
    /\ Len(owners) < MaxLinkOwners
    /\ \E idn \in Identities, u \in UUIDs \cup {None} :
          ClusterStep("fast", idn, u, owners, clusters, phone_to_cluster, name_to_cluster,
                      owners', clusters', phone_to_cluster', name_to_cluster')
    /\ UNCHANGED <<engine, rerunVars, nonClusterVars>>

\* the LEFT JOIN LATERAL of the rebuild for a latest transaction whose buyer
\* is the identity of the i-th owner row
rebuild_owner_lookup ==
    /\ ln_pc = "collect"
    /\ \E i \in 1..Len(owners) :
          LET l == [buyer_name |-> owners[i].raw_name, buyer_phone |-> owners[i].raw_phone]
              cand == OwnerCandidates(LinkTable, l)
          IN  /\ ln_buyer' = i
              /\ \/ cand = {} /\ ln_owner' = None
                 \/ \E o \in cand : ln_owner' = o.id
    /\ ln_pc' = "linked"
    /\ UNCHANGED nonLinkVars

InitLink == InitCluster
NextLink == link_cluster_owners \/ link_cluster_owners_fast \/ rebuild_owner_lookup
SpecLink == InitLink /\ [][NextLink]_vars

\* C30: the owner keys of the two stages agree: for every buyer identity
\* the cluster engine stored as an Owner row, the rebuild's owner lookup for
\* a latest transaction carrying the same raw buyer name and phone matches
\* an Owner row of that identity's cluster; the Property is never left
\* unlinked.
C30_KeysAgree ==
    ln_pc = "linked" =>
        /\ ln_owner # None
        /\ owners[ln_owner].cluster_id = owners[ln_buyer].cluster_id

====
